---- MODULE Spec2Model ----
(***************************************************************************)
(* SmartShop: the shopping assistant's tool-calling loop                   *)
(* (assistant/services.py), its tools (assistant/tools.py) and the chat    *)
(* endpoint that persists conversations (assistant/views.py).              *)
(*                                                                         *)
(* Specifications:                                                         *)
(*   SpecTool  one call of _sanitize_args / _execute_tool on drawn inputs  *)
(*   SpecChat  one invocation of AssistantService.chat                     *)
(*   Spec      a sequence of requests to the chat endpoint                 *)
(*   SpecRate  the chat endpoint behind its rate limiter, with time        *)
(*   SpecRateRace  the rate limiter with two requests in flight            *)
(*   SpecRateSpread  the rate limiter with the recent admissions remembered*)
(*   SpecCheckoutRace  two checkouts in flight together                    *)
(*   SpecHistory   the chat endpoint on a conversation with a long history *)
(*   SpecShop  the cart and checkout views (store/views.py)                *)
(*   SpecSummary      review summaries of the products over two days       *)
(*   SpecDescription  dynamic descriptions of the products over a week     *)
(*   SpecSearch       get_ai_search_results over a changing catalogue      *)
(*   SpecCatalogue    get_product_details over a changing catalogue        *)
(***************************************************************************)
EXTENDS Integers, Sequences, FiniteSets, TLC

VARIABLES
    \* ---- store tables read and written by the tools
    product_stock,    \* Product.stock, by product id
    product_active,   \* Product.is_active, by product id
    carts,            \* owners (user or session key) that have a Cart row
    cart_items,       \* CartItem.quantity by owner and product, 0 = no row
    cache,            \* keys present in Django's cache
    sessions,         \* session keys that exist in the session store
    \* ---- one call of _sanitize_args / _execute_tool (SpecTool)
    t_pc,             \* "input" | "sanitized" | "executed"
    t_name,           \* function_name
    t_args,           \* function_args, a parsed JSON object
    t_req,            \* AssistantService.request
    t_san,            \* what _sanitize_args returned or raised
    t_res,            \* what _execute_tool returned or raised
    \* ---- one invocation of AssistantService.chat
    c_pc,             \* "idle" | "start" | "loop" | "done"
    c_in,             \* the arguments of chat and the service's request
    full_messages,    \* the local list full_messages
    iteration,        \* the local counter iteration
    llm_sent,         \* the message lists sent to the LLM endpoint, in order
    llm_resps,        \* the responses the endpoint gave, in order
    tool_log,         \* the tool functions whose body ran, in order
    c_result,         \* the dict chat returned
    \* ---- the chat endpoint and its tables
    api_key_set,      \* settings.OPENAI_API_KEY is configured
    conversations,    \* Conversation rows by conversation_id
    messages,         \* Message rows by conversation_id, in created_at order
    contexts,         \* number of ConversationContext rows by conversation_id
    v_pc,             \* "idle" | "service" : position of the view
    v_req,            \* the request being handled
    v_conv,           \* conversation_id the view resolved
    responses,        \* the number of HTTP responses given so far
    last_response,    \* the latest HTTP response
    \* ---- the rate limiter of the chat endpoint
    rl_count,         \* the cached request count by client identifier
    rl_ttl,           \* seconds until the cached count expires, 0 = no key
    rl_window,        \* age of the cached count and the requests met since it
                      \* was first stored, for the window_seconds after that
    \* ---- the store views (store/views.py)
    orders,           \* Order rows with their OrderItem rows, in creation order
    shop_op,          \* the latest cart or checkout request and its outcome
    units_sold,       \* Product.units_sold, by product id
    \* ---- generated content of the products (store/review_summary.py,
    \*      store/dynamic_description.py)
    now,              \* timezone.now(), in hours
    review_count,     \* approved Review rows, by product
    review_summary,   \* the review_summary* columns of Product, by product
    dynamic_description, \* the dynamic_description* columns, by product
    updated_at,       \* Product.updated_at, by product
    content_op,       \* the latest page view or command run and what it did
    \* ---- the product search (store/ai_search.py)
    search_op,        \* the latest call of get_ai_search_results
    \* ---- requests handled at the same time
    rl_reads,         \* the count each chat request in flight read from the cache
    checkouts,        \* the position and locals of each checkout in flight
    \* ---- history
    rl_recent         \* the chat requests admitted at this instant, one and
                      \* two ticks ago, by client identifier

storeVars == <<product_stock, product_active, carts, cart_items, cache, sessions>>
toolVars  == <<t_pc, t_name, t_args, t_req, t_san, t_res>>
chatVars  == <<c_pc, c_in, full_messages, iteration, llm_sent, llm_resps,
               tool_log, c_result>>
viewVars  == <<api_key_set, conversations, messages, contexts, v_pc, v_req,
               v_conv, responses, last_response>>
rateVars  == <<rl_count, rl_ttl, rl_window>>
shopVars  == <<orders, shop_op, units_sold>>
contentVars == <<now, review_count, review_summary, dynamic_description,
                 updated_at, content_op>>
searchVars == <<search_op>>
raceVars  == <<rl_reads, checkouts>>
histVars  == <<rl_recent>>
siteVars  == <<rateVars, shopVars, contentVars, searchVars, raceVars, histVars>>
vars == <<storeVars, toolVars, chatVars, viewVars, siteVars>>

(***************************************************************************)
(* Bounds of the model.                                                    *)
(***************************************************************************)
MaxArgs == 2          \* keys in a drawn argument object (SpecTool)
MaxCallsPerResp == 2  \* tool calls in one LLM response (SpecChat)
MaxToolCalls == 6     \* tool calls over one chat invocation (SpecChat)
MaxRequests == 3      \* requests to the chat endpoint (Spec)
MaxRateRequests == 22 \* requests to the rate-limited endpoint (SpecRate)
MaxOrders == 2        \* orders placed at the checkout (SpecShop)

(***************************************************************************)
(* JSON values as Python sees them after json.loads.  t is the Python      *)
(* type; n is the integer, the float in tenths, the sign of an infinity,   *)
(* 0/1 of a bool, or the length of a string; s is the string.              *)
(***************************************************************************)
Val(t, n, s) == [t |-> t, n |-> n, s |-> s]
IntV(n)   == Val("int", n, "")
FloatV(n) == Val("float", n, "")
InfV(sg)  == Val("inf", sg, "")
NaNV      == Val("nan", 0, "")
BoolV(b)  == Val("bool", IF b THEN 1 ELSE 0, "")
NoneV     == Val("none", 0, "")
StrV(s, len) == Val("str", len, s)

Values ==
    { IntV(-1), IntV(0), IntV(3), IntV(150), FloatV(27), InfV(1), NaNV,
      StrV("3", 1), StrV("abc", 3), StrV("rating", 6), StrV("long", 250),
      NoneV, BoolV(TRUE) }

KnownKeys == {"product_id", "limit", "query", "category", "min_price",
              "max_price", "min_rating", "in_stock_only", "sort", "quantity"}
ArgKeys == KnownKeys \cup {"color"}

\* argument objects with at most k keys
ArgDicts(k) ==
    UNION { [K -> Values] : K \in { S \in SUBSET ArgKeys : Cardinality(S) <= k } }

Done(v)      == [ok |-> TRUE, v |-> v, exc |-> ""]
Raise(e)     == [ok |-> FALSE, v |-> NoneV, exc |-> e]

TruncTenths(n) == IF n >= 0 THEN n \div 10 ELSE -((-n) \div 10)

\* the decimal literals among the model's strings: <<is int, int, is float, tenths>>
StrLiteral(s) ==
    IF s = "3" THEN [isint |-> TRUE, i |-> 3, isfloat |-> TRUE, f |-> 30]
    ELSE [isint |-> FALSE, i |-> 0, isfloat |-> FALSE, f |-> 0]

\* Python int(x)
PyInt(x) ==
    CASE x.t = "int"   -> Done(IntV(x.n))
      [] x.t = "bool"  -> Done(IntV(x.n))
      [] x.t = "float" -> Done(IntV(TruncTenths(x.n)))
      [] x.t = "inf"   -> Raise("OverflowError")
      [] x.t = "nan"   -> Raise("ValueError")
      [] x.t = "str"   -> IF StrLiteral(x.s).isint
                          THEN Done(IntV(StrLiteral(x.s).i))
                          ELSE Raise("ValueError")
      [] OTHER         -> Raise("TypeError")

\* Python float(x)
PyFloat(x) ==
    CASE x.t = "int"   -> Done(FloatV(10 * x.n))
      [] x.t = "bool"  -> Done(FloatV(10 * x.n))
      [] x.t = "float" -> Done(x)
      [] x.t = "inf"   -> Done(x)
      [] x.t = "nan"   -> Done(x)
      [] x.t = "str"   -> IF StrLiteral(x.s).isfloat
                          THEN Done(FloatV(StrLiteral(x.s).f))
                          ELSE Raise("ValueError")
      [] OTHER         -> Raise("TypeError")

\* Python truth value
Truthy(x) ==
    CASE x.t = "none" -> FALSE
      [] x.t \in {"int", "bool", "float", "str"} -> x.n # 0
      [] OTHER -> TRUE

\* the order of Python numbers, in tenths; every comparison with nan is false
Tenths(x) ==
    CASE x.t \in {"int", "bool"} -> 10 * x.n
      [] x.t = "float" -> x.n
      [] x.t = "inf"   -> x.n * 1000000
      [] OTHER -> 0
PyGt(a, b) == a.t # "nan" /\ b.t # "nan" /\ Tenths(a) > Tenths(b)
PyLt(a, b) == a.t # "nan" /\ b.t # "nan" /\ Tenths(a) < Tenths(b)
\* max(a, b) and min(a, b): the first argument stays unless the second beats it
PyMax(a, b) == IF PyGt(b, a) THEN b ELSE a
PyMin(a, b) == IF PyLt(b, a) THEN b ELSE a

\* str(x)[:k]
PyStrCut(x, k) ==
    IF x.t = "str" THEN StrV(x.s, IF x.n < k THEN x.n ELSE k)
    ELSE StrV("repr", 4)

(***************************************************************************)
(* AssistantService._sanitize_args (services.py 209-268).                  *)
(***************************************************************************)
AllowedSorts == {"popular", "latest", "price_low_high", "price_high_low", "rating"}

\* a clamp that forgets the upper limit
ClampFromBelow(x, lo, hi) == PyMax(IntV(lo), x)
\* max(lo, min(x, hi)) as the code writes it for limit and quantity
Clamp(x, lo, hi) == PyMax(IntV(lo), PyMin(x, IntV(hi)))

Keep(v) == [keep |-> TRUE, v |-> v]
Drop    == [keep |-> FALSE, v |-> NoneV]

\* what the block of key k leaves in sanitized[k], when it does not raise
SanField(k, x) ==
    CASE k = "product_id" -> Keep(PyInt(x).v)
      [] k = "limit" ->
            IF PyInt(x).ok THEN Keep(Clamp(PyInt(x).v, 1, 10)) ELSE Keep(IntV(5))
      [] k = "query" ->
            IF Truthy(x) THEN Keep(PyStrCut(x, 200)) ELSE Drop
      [] k = "category" ->
            IF Truthy(x) THEN Keep(PyStrCut(x, 100)) ELSE Drop
      [] k \in {"min_price", "max_price"} ->
            IF x.t # "none" /\ PyFloat(x).ok
            THEN Keep(PyMax(IntV(0), PyFloat(x).v)) ELSE Drop
      [] k = "min_rating" ->
            IF x.t # "none" /\ PyFloat(x).ok
            THEN Keep(PyMax(IntV(1), PyMin(IntV(5), PyFloat(x).v))) ELSE Drop
      [] k = "in_stock_only" -> Keep(BoolV(Truthy(x)))
      [] k = "sort" ->
            IF Truthy(x) /\ x.t = "str" /\ x.s \in AllowedSorts THEN Keep(x) ELSE Drop
      [] k = "quantity" ->
            IF PyInt(x).ok THEN Keep(Clamp(PyInt(x).v, 1, 100)) ELSE Keep(IntV(1))
      [] OTHER -> Drop

\* a product_id block without the check of the sign
SanRaisesAnySign(k, x) ==
    CASE k = "product_id" ->
            IF PyInt(x).exc = "OverflowError" THEN "OverflowError"
            ELSE IF ~PyInt(x).ok THEN "ValueError"
            ELSE ""
      [] k \in {"limit", "quantity"} ->
            IF PyInt(x).exc = "OverflowError" THEN "OverflowError" ELSE ""
      [] OTHER -> ""
\* the exception the block of key k lets escape, "" when none
SanRaises(k, x) ==
    CASE k = "product_id" ->
            IF PyInt(x).exc = "OverflowError" THEN "OverflowError"
            ELSE IF ~PyInt(x).ok \/ PyInt(x).v.n <= 0 THEN "ValueError"
            ELSE ""
      [] k \in {"limit", "quantity"} ->
            IF PyInt(x).exc = "OverflowError" THEN "OverflowError" ELSE ""
      [] OTHER -> ""

\* _sanitize_args(function_name, args): the blocks run in the order
\* product_id, limit, ..., quantity; the first escaping exception ends the call
_sanitize_args(args) ==
    LET has(k) == k \in DOMAIN args
        exc == IF has("product_id") /\ SanRaises("product_id", args["product_id"]) # ""
                 THEN SanRaises("product_id", args["product_id"])
               ELSE IF has("limit") /\ SanRaises("limit", args["limit"]) # ""
                 THEN SanRaises("limit", args["limit"])
               ELSE IF has("quantity") /\ SanRaises("quantity", args["quantity"]) # ""
                 THEN SanRaises("quantity", args["quantity"])
               ELSE ""
        kept == { k \in DOMAIN args : SanField(k, args[k]).keep }
    IN  IF exc # "" THEN [exc |-> exc, out |-> [k \in {} |-> NoneV]]
        ELSE [exc |-> "", out |-> [k \in kept |-> SanField(k, args[k]).v]]

(***************************************************************************)
(* The store, and the nine tools of assistant/tools.py.  The catalogue of  *)
(* the model has ids, stock and is_active only, so the text, category,     *)
(* price and rating filters of the searches match every product, and the   *)
(* result lists are in id order.  A tool result keeps the keys that the    *)
(* service reads: success, error, products, similar_products.              *)
(***************************************************************************)
Products == {1, 2, 3}
Users == {"alice", "bob"}
SessionKeys == {"s1", "s2"}
Owners == Users \cup SessionKeys
Anonymous == "AnonymousUser"
NoSession == ""

\* a Django request: the logged-in user (or Anonymous) and the session key
Request(u, k) == [present |-> TRUE, user |-> u, session_key |-> k]
NoRequest == [present |-> FALSE, user |-> Anonymous, session_key |-> NoSession]

Store ==
    [product_stock |-> product_stock, product_active |-> product_active,
     carts |-> carts, cart_items |-> cart_items, cache |-> cache,
     sessions |-> sessions]

Result(ok, err, prods, sims) ==
    [success |-> ok, error |-> err, products |-> prods, similar_products |-> sims]
Card(src, id) == [src |-> src, id |-> id]

\* what a tool function leaves behind: its return value, the store, the request
Ran(res, st, req) == [result |-> res, st |-> st, req |-> req]

RECURSIVE IdsInOrder(_)
IdsInOrder(S) ==
    IF S = {} THEN << >>
    ELSE LET m == CHOOSE x \in S : \A y \in S : x <= y
         IN  <<m>> \o IdsInOrder(S \ {m})
FirstN(q, n) == SubSeq(q, 1, IF Len(q) < n THEN Len(q) ELSE n)
CardsOf(src, q) == [i \in 1..Len(q) |-> Card(src, q[i])]
IsActive(st, pid) == pid \in Products /\ st.product_active[pid]
KwInt(kw, k, dflt) == IF k \in DOMAIN kw THEN kw[k].n ELSE dflt
PyMinInt(a, b) == IF b < a THEN b ELSE a

search_products(st, kw, req) ==
    LET in_stock == "in_stock_only" \in DOMAIN kw /\ Truthy(kw["in_stock_only"])
        found == { p \in Products : st.product_active[p]
                                      /\ (in_stock => st.product_stock[p] > 0) }
        limit == PyMinInt(KwInt(kw, "limit", 5), 10)
    IN  Ran(Result(TRUE, "", CardsOf("search", FirstN(IdsInOrder(found), limit)), << >>),
            st, req)

get_product_details(st, kw, req) ==
    LET pid == kw["product_id"].n
        key == <<"product_details", pid>>
    IN  IF key \in st.cache THEN Ran(Result(TRUE, "", << >>, << >>), st, req)
        ELSE IF IsActive(st, pid)
        THEN Ran(Result(TRUE, "", << >>, << >>),
                 [st EXCEPT !.cache = @ \cup {key}], req)
        ELSE Ran(Result(FALSE, "Product not found", << >>, << >>), st, req)

get_product_specs(st, kw, req) ==
    LET pid == kw["product_id"].n
        key == <<"product_specs", pid>>
    IN  IF key \in st.cache THEN Ran(Result(TRUE, "", << >>, << >>), st, req)
        ELSE IF IsActive(st, pid)
        THEN Ran(Result(TRUE, "", << >>, << >>),
                 [st EXCEPT !.cache = @ \cup {key}], req)
        ELSE Ran(Result(FALSE, "Product not found", << >>, << >>), st, req)

get_availability(st, kw, req) ==
    IF IsActive(st, kw["product_id"].n)
    THEN Ran(Result(TRUE, "", << >>, << >>), st, req)
    ELSE Ran(Result(FALSE, "Product not found", << >>, << >>), st, req)

get_reviews_summary(st, kw, req) ==
    IF IsActive(st, kw["product_id"].n)
    THEN Ran(Result(TRUE, "", << >>, << >>), st, req)
    ELSE Ran(Result(FALSE, "Product not found", << >>, << >>), st, req)

get_similar_products(st, kw, req) ==
    LET pid == kw["product_id"].n
        similar == { p \in Products : st.product_active[p] /\ p # pid }
        limit == KwInt(kw, "limit", 3)
    IN  IF IsActive(st, pid)
        THEN Ran(Result(TRUE, "", << >>,
                        CardsOf("similar", FirstN(IdsInOrder(similar), limit))), st, req)
        ELSE Ran(Result(FALSE, "Product not found", << >>, << >>), st, req)

get_categories(st, kw, req) == Ran(Result(TRUE, "", << >>, << >>), st, req)

get_top_selling_products(st, kw, req) ==
    LET found == { p \in Products : st.product_active[p] }
        limit == PyMinInt(KwInt(kw, "limit", 10), 10)
    IN  Ran(Result(TRUE, "", CardsOf("top", FirstN(IdsInOrder(found), limit)), << >>),
            st, req)

\* request.session.create(): a key that no session has yet
NewSessionKey(st) == CHOOSE k \in SessionKeys \ st.sessions : TRUE

\* tools.py 619-628: what the tool reports as added
QuantityAddedAsAsked(old_quantity, quantity, stock) == quantity
QuantityAdded(old_quantity, quantity, stock) ==
    IF old_quantity # 0 /\ old_quantity + quantity > stock
    THEN stock - old_quantity
    ELSE quantity

add_to_cart(st, kw, req) ==
    LET pid == kw["product_id"].n
        quantity == KwInt(kw, "quantity", 1)
        fail(msg) == Ran(Result(FALSE, msg, << >>, << >>), st, req)
    IN  IF ~req.present THEN fail("Request context required for cart operations")
        ELSE IF ~IsActive(st, pid) THEN fail("Product not found or not available")
        ELSE IF quantity < 1 THEN fail("Quantity must be at least 1")
        ELSE IF quantity > st.product_stock[pid] THEN fail("Only N items available in stock")
        ELSE
          LET key == IF req.user # Anonymous \/ req.session_key # NoSession
                     THEN req.session_key ELSE NewSessionKey(st)
              owner == IF req.user # Anonymous THEN req.user ELSE key
              old_quantity == st.cart_items[owner][pid]
              item_created == old_quantity = 0
              new_quantity == IF item_created THEN quantity
                              ELSE PyMinInt(old_quantity + quantity, st.product_stock[pid])
          IN  Ran([quantity_added |->
                       QuantityAdded(old_quantity, quantity, st.product_stock[pid])]
                    @@ Result(TRUE, "", << >>, << >>),
                  [st EXCEPT !.carts = @ \cup {owner},
                             !.cart_items[owner][pid] = new_quantity,
                             !.sessions = IF key = NoSession THEN @ ELSE @ \cup {key}],
                  [req EXCEPT !.session_key = key])

(***************************************************************************)
(* AssistantService._execute_tool (services.py 169-207).                   *)
(***************************************************************************)
ToolNames == {"search_products", "get_product_details", "get_product_specs",
              "get_availability", "get_reviews_summary", "get_similar_products",
              "get_categories", "get_top_selling_products", "add_to_cart"}

\* the keyword parameters of each tool function, and those without a default
ToolParams(name) ==
    CASE name = "search_products" ->
            {"query", "category", "min_price", "max_price", "min_rating",
             "in_stock_only", "sort", "limit"}
      [] name \in {"get_product_details", "get_product_specs", "get_availability",
                   "get_reviews_summary"} -> {"product_id"}
      [] name = "get_similar_products" -> {"product_id", "limit"}
      [] name = "get_top_selling_products" -> {"limit"}
      [] name = "add_to_cart" -> {"product_id", "quantity"}
      [] OTHER -> {}
ToolRequired(name) ==
    IF name \in {"get_product_details", "get_product_specs", "get_availability",
                 "get_reviews_summary", "get_similar_products", "add_to_cart"}
    THEN {"product_id"} ELSE {}

\* tool_map[function_name](**sanitized_args)
CallTool(name, st, kw, req) ==
    CASE name = "search_products" -> search_products(st, kw, req)
      [] name = "get_product_details" -> get_product_details(st, kw, req)
      [] name = "get_product_specs" -> get_product_specs(st, kw, req)
      [] name = "get_availability" -> get_availability(st, kw, req)
      [] name = "get_reviews_summary" -> get_reviews_summary(st, kw, req)
      [] name = "get_similar_products" -> get_similar_products(st, kw, req)
      [] name = "get_categories" -> get_categories(st, kw, req)
      [] name = "get_top_selling_products" -> get_top_selling_products(st, kw, req)
      [] name = "add_to_cart" -> add_to_cart(st, kw, req)

NoResult == Result(FALSE, "", << >>, << >>)

\* exc: the exception that escapes ("" when the call returns); called: the
\* tool function whose body ran ("" when none did)
ToolOutcome(exc, res, called, st, req) ==
    [exc |-> exc, result |-> res, called |-> called, st |-> st, req |-> req]

\* services.py 199-207: bind the sanitized arguments and run the tool
CallSanitized(function_name, san, st, req) ==
    IF san.exc # "" THEN ToolOutcome(san.exc, NoResult, "", st, req)
    ELSE IF ~(DOMAIN san.out \subseteq ToolParams(function_name))
            \/ ~(ToolRequired(function_name) \subseteq DOMAIN san.out)
    THEN ToolOutcome("TypeError", NoResult, "", st, req)
    ELSE ToolOutcome("", CallTool(function_name, st, san.out, req).result, function_name,
                     CallTool(function_name, st, san.out, req).st,
                     CallTool(function_name, st, san.out, req).req)

_execute_tool(function_name, function_args, st, req) ==
    IF function_name \notin ToolNames
    THEN ToolOutcome("", Result(FALSE, "Unknown tool", << >>, << >>), "", st, req)
    ELSE CallSanitized(function_name, _sanitize_args(function_args), st, req)

(***************************************************************************)
(* AssistantService.chat (services.py 30-141) and _format_response         *)
(* (services.py 270-323).  A message is one dict of the list sent to the   *)
(* LLM; for a tool message, result is the dict that json.dumps wrote into  *)
(* content and that _format_response reads back with json.loads.           *)
(***************************************************************************)
max_iterations == 5

\* the while condition (services.py 47)
LoopContinuesPastCap(i) == i <= max_iterations
LoopContinues(i) == i < max_iterations

Msg(role, content) ==
    [role |-> role, content |-> content, tool_call_id |-> 0, name |-> "",
     tool_calls |-> << >>, result |-> NoResult]
AssistantToolMsg(content, calls) ==
    [role |-> "assistant", content |-> content, tool_call_id |-> 0, name |-> "",
     tool_calls |-> calls, result |-> NoResult]
ToolMsg(id, name, res) ==
    [role |-> "tool", content |-> "json", tool_call_id |-> id, name |-> name,
     tool_calls |-> << >>, result |-> res]

\* a tool call of an LLM response: arguments is a JSON text, which either
\* fails to parse (json_ok = FALSE) or parses to the object obj
ToolCall(id, name, ok, obj) == [id |-> id, name |-> name, json_ok |-> ok, obj |-> obj]

\* str(e) of the exceptions that escape _execute_tool
ExcText(exc) == IF exc = "ValueError" THEN "Invalid product_id" ELSE exc

\* services.py 92-98 and 110-117: the message for a call that parsed
ToolCallDone(tc, out) ==
    [msg |-> ToolMsg(tc.id, tc.name,
                     IF out.exc # "" THEN Result(FALSE, ExcText(out.exc), << >>, << >>)
                     ELSE out.result),
     st |-> out.st, req |-> out.req, called |-> out.called]

\* one pass of the loop over tool_calls (services.py 82-117): the message
\* appended for the call, and what the tool left behind
RunToolCall(tc, st, req) ==
    IF ~tc.json_ok
    THEN [msg |-> ToolMsg(tc.id, tc.name, Result(FALSE, "Invalid arguments", << >>, << >>)),
          st |-> st, req |-> req, called |-> ""]
    ELSE ToolCallDone(tc, _execute_tool(tc.name, tc.obj, st, req))

\* a loop body that answers only the calls whose tool ran
StepAccOnlyCalled(acc, r) ==
    IF r.called = "" THEN [acc EXCEPT !.st = r.st, !.req = r.req]
    ELSE [msgs |-> Append(acc.msgs, r.msg), st |-> r.st, req |-> r.req,
          log |-> Append(acc.log, r.called)]
\* the loop body's effect on the accumulated acc = [msgs, st, req, log]
StepAcc(acc, r) ==
    [msgs |-> Append(acc.msgs, r.msg), st |-> r.st, req |-> r.req,
     log |-> IF r.called = "" THEN acc.log ELSE Append(acc.log, r.called)]

\* the whole for loop: acc = [msgs, st, req, log]
RECURSIVE RunToolCalls(_, _)
RECURSIVE RunToolCallsAbort(_, _)
\* a loop that gives up at the first call that fails
RunToolCallsAbort(calls, acc) ==
    IF calls = << >> THEN acc
    ELSE IF RunToolCall(Head(calls), acc.st, acc.req).msg.result.success
    THEN RunToolCallsAbort(Tail(calls),
                           StepAcc(acc, RunToolCall(Head(calls), acc.st, acc.req)))
    ELSE acc
RunToolCalls(calls, acc) ==
    IF calls = << >> THEN acc
    ELSE RunToolCalls(Tail(calls), StepAcc(acc, RunToolCall(Head(calls), acc.st, acc.req)))

\* _build_system_prompt: the prompt, with the page context when there is one
SystemMsg(page_context) ==
    Msg("system", IF page_context THEN "SYSTEM_PROMPT+CONTEXT" ELSE "SYSTEM_PROMPT")

LastN(q, n) == IF Len(q) <= n THEN q ELSE SubSeq(q, Len(q) - n + 1, Len(q))
InSeq(x, q) == \E i \in 1..Len(q) : q[i] = x

\* for product in list: if product not in cards: cards.append(product)
RECURSIVE AddCards(_, _)
AddCards(cards, list) ==
    IF list = << >> THEN cards
    ELSE AddCards(IF InSeq(Head(list), cards) THEN cards ELSE Append(cards, Head(list)),
                  Tail(list))

\* for msg in reversed(msgs): the cards of the successful tool results
RECURSIVE ExtractCards(_, _)
ExtractCards(msgs, cards) ==
    IF msgs = << >> THEN cards
    ELSE LET m == msgs[Len(msgs)]
             rest == SubSeq(msgs, 1, Len(msgs) - 1)
         IN  IF m.role = "tool" /\ m.result.success
             THEN ExtractCards(rest,
                    AddCards(AddCards(cards, FirstN(m.result.products, 5)),
                             FirstN(m.result.similar_products, 5)))
             ELSE ExtractCards(rest, cards)

CardSuggestions == <<"Tell me more about any of these products",
                     "Check availability", "Compare these options">>
DefaultSuggestions == <<"Search for products", "Show me categories", "What's popular?">>
Greeting == "How can I help you?"
Apology == "I apologize, but I'm having trouble processing your request. Could you please try rephrasing?"
ErrorReply == "I'm sorry, I encountered an error. Please try again."

ChatResult(reply, cards, suggestions, error) ==
    [reply |-> reply, cards |-> cards, suggestions |-> suggestions, error |-> error]

\* a formatter that ignores the text of the model
_format_response_greets(assistant_text, msgs) ==
    ChatResult(Greeting, FirstN(ExtractCards(LastN(msgs, 10), << >>), 5),
               DefaultSuggestions, "")
_format_response(assistant_text, msgs) ==
    LET cards == ExtractCards(LastN(msgs, 10), << >>)
        suggestions == IF cards # << >> THEN CardSuggestions ELSE DefaultSuggestions
    IN  ChatResult(IF assistant_text # "" THEN assistant_text ELSE Greeting,
                   FirstN(cards, 5), FirstN(suggestions, 3), "")

(***************************************************************************)
(* Initial values.                                                         *)
(***************************************************************************)
\* a small shop: product 2 is inactive, alice has one unit of product 1
Stock0 == (1 :> 2) @@ (2 :> 4) @@ (3 :> 5)
Active0 == (1 :> TRUE) @@ (2 :> FALSE) @@ (3 :> TRUE)
CartItems0 == [o \in Owners |-> [p \in Products |->
                  IF o = "alice" /\ p = 1 THEN 1 ELSE 0]]
InitStore ==
    /\ product_stock = Stock0
    /\ product_active = Active0
    /\ carts = {"alice"}
    /\ cart_items = CartItems0
    /\ cache = {<<"product_details", 2>>}
    /\ sessions = {"s1"}

NoSan == [exc |-> "", out |-> [k \in {} |-> NoneV]]
NoOutcome == ToolOutcome("", NoResult, "", [none |-> TRUE], NoRequest)
ToolIdle ==
    /\ t_pc = "idle" /\ t_name = "" /\ t_args = [k \in {} |-> NoneV]
    /\ t_req = NoRequest /\ t_san = NoSan /\ t_res = NoOutcome

NoChatInput == [messages |-> << >>, page_context |-> FALSE, request |-> NoRequest]
NoChatResult == [reply |-> "", cards |-> << >>, suggestions |-> << >>, error |-> ""]
ChatIdle ==
    /\ c_pc = "idle" /\ c_in = NoChatInput /\ full_messages = << >>
    /\ iteration = 0 /\ llm_sent = << >> /\ llm_resps = << >>
    /\ tool_log = << >> /\ c_result = NoChatResult

ConversationIds == {"c1", "c2", "c3"}
NoHttpRequest == [message |-> "", conversation_id |-> "", page_context |-> FALSE,
                  user |-> Anonymous, session_key |-> NoSession]
NoHttpResponse == [status |-> 0, conversation_id |-> "", reply |-> ""]
ViewIdle ==
    /\ api_key_set = TRUE
    /\ conversations = [c \in {} |-> 0]
    /\ messages = [c \in {} |-> << >>]
    /\ contexts = [c \in {} |-> 0]
    /\ v_pc = "idle" /\ v_req = NoHttpRequest /\ v_conv = ""
    /\ responses = 0 /\ last_response = NoHttpResponse

\* the identifiers the rate limiter sees from one address: a session key,
\* or 'anonymous' for a request without a session (views.py 26-28)
RateKeys == SessionKeys \cup {"anonymous"}
\* no window is open: there is no cached count, or it is older than the window
NoWindow == [open |-> FALSE, age |-> 0, seen |-> 0]
RateIdle ==
    /\ rl_count = [k \in RateKeys |-> 0]
    /\ rl_ttl = [k \in RateKeys |-> 0]
    /\ rl_window = [k \in RateKeys |-> NoWindow]
NoShopOp == [op |-> "", user |-> Anonymous, session_key |-> NoSession,
             owner |-> "", product |-> 0, quantity |-> 0, status |-> "",
             quantity_added |-> 0]
ShopIdle ==
    /\ orders = << >> /\ shop_op = NoShopOp
    /\ units_sold = [p \in Products |-> 0]

\* None for a DateTimeField
NoTime == 0 - 1
NoSummary == [summary |-> "", pros |-> "", cons |-> "", sentiment |-> "",
              generated_at |-> NoTime, review_count |-> 0]
NoDescription == [text |-> "", generated_at |-> NoTime]
\* previous is the generation time of the description a page view found
NoContentOp == [op |-> "", product |-> 0, force |-> FALSE, status |-> "",
                should |-> FALSE, needs |-> FALSE, asked |-> {},
                outcomes |-> [p \in Products |-> ""],
                returned |-> [p \in Products |-> "not called"],
                described |-> [p \in Products |-> ""],
                previous |-> NoTime]
ContentIdle ==
    /\ now = 0
    /\ review_count = [p \in Products |-> 0]
    /\ review_summary = [p \in Products |-> NoSummary]
    /\ dynamic_description = [p \in Products |-> NoDescription]
    /\ updated_at = [p \in Products |-> 0]
    /\ content_op = NoContentOp

NoSearchOp == [query |-> "", limit |-> 0, answer |-> "", exc |-> "",
               entries |-> << >>, fallback |-> << >>]
SearchIdle == search_op = NoSearchOp

\* the requests that can be in flight together
Procs == {1, 2}
NoRead == 0 - 1
NoCheckout == [pc |-> "idle", todo |-> << >>, order |-> 0, product |-> 0,
               stock |-> 0, units |-> 0]
RaceIdle ==
    /\ rl_reads = [i \in Procs |-> NoRead]
    /\ checkouts = [u \in Users |-> NoCheckout]
HistIdle == rl_recent = [k \in RateKeys |-> <<0, 0, 0>>]
SiteIdle == RateIdle /\ ShopIdle /\ ContentIdle /\ SearchIdle /\ RaceIdle /\ HistIdle

(***************************************************************************)
(* SpecTool: _sanitize_args or _execute_tool called once on drawn inputs.  *)
(***************************************************************************)
ExecKeys == {"product_id", "quantity", "limit", "color"}
ExecValues == Values \ {NaNV, StrV("rating", 6), StrV("long", 250)}
ExecDicts(k) ==
    UNION { [K -> ExecValues] : K \in { S \in SUBSET ExecKeys : Cardinality(S) <= k } }
ToolRequests == {NoRequest, Request("alice", "s1"), Request(Anonymous, "s1"),
                 Request(Anonymous, NoSession)}

InitTool ==
    /\ InitStore /\ ChatIdle /\ ViewIdle /\ SiteIdle
    /\ t_san = NoSan /\ t_res = NoOutcome
    /\ \/ /\ t_pc = "call_sanitize"
          /\ t_name = "search_products"
          /\ t_args \in ArgDicts(MaxArgs)
          /\ t_req = NoRequest
       \/ /\ t_pc = "call_execute"
          /\ t_name \in ToolNames \cup {"delete_product"}
          /\ t_args \in ExecDicts(MaxArgs)
          /\ t_req \in ToolRequests

Sanitize ==
    /\ t_pc = "call_sanitize"
    /\ t_san' = _sanitize_args(t_args)
    /\ t_pc' = "sanitized"
    /\ UNCHANGED <<t_name, t_args, t_req, t_res, storeVars, chatVars, viewVars, siteVars>>

\* the tables as a tool left them
StoreBecomes(st) ==
    /\ product_stock' = st.product_stock
    /\ product_active' = st.product_active
    /\ carts' = st.carts
    /\ cart_items' = st.cart_items
    /\ cache' = st.cache
    /\ sessions' = st.sessions

ToolReturns(out) ==
    /\ t_res' = out
    /\ StoreBecomes(out.st)

ExecuteTool ==
    /\ t_pc = "call_execute"
    /\ ToolReturns(_execute_tool(t_name, t_args, Store, t_req))
    /\ t_pc' = "executed"
    /\ UNCHANGED <<t_name, t_args, t_req, t_san, chatVars, viewVars, siteVars>>

NextTool == Sanitize \/ ExecuteTool
SpecTool == InitTool /\ [][NextTool]_vars

(***************************************************************************)
(* SpecChat: one invocation of AssistantService.chat.  The LLM endpoint is *)
(* the environment: each completion call raises, or returns a plain-text   *)
(* message, or returns a message with tool calls.                          *)
(***************************************************************************)
TextContents == {"", "Found products!"}
EmptyObj == [k \in {} |-> NoneV]

\* the tool calls the endpoint asks for in SpecChat: a search that finds
\* products, arguments that are no JSON, and a product_id that is refused
ChatCalls ==
    { ToolCall(0, "search_products", TRUE, EmptyObj),
      ToolCall(0, "search_products", FALSE, EmptyObj),
      ToolCall(0, "add_to_cart", TRUE, [k \in {"product_id"} |-> IntV(0)]) }

CallSeqs(Calls, n) == UNION { [1..k -> Calls] : k \in 1..n }
\* the endpoint numbers the calls of its answer
WithIds(calls, base) == [j \in 1..Len(calls) |-> [calls[j] EXCEPT !.id = base + j]]

LLMResponse(kind, content, calls) ==
    [kind |-> kind, content |-> content, tool_calls |-> calls]

RECURSIVE CountRole(_, _)
CountRole(msgs, role) ==
    IF msgs = << >> THEN 0
    ELSE (IF Head(msgs).role = role THEN 1 ELSE 0) + CountRole(Tail(msgs), role)

ChatInputs ==
    { [messages |-> <<Msg("user", "hello")>>, page_context |-> FALSE,
       request |-> Request("alice", "s1")],
      [messages |-> <<Msg("user", "hello"), Msg("assistant", "Hi!"),
                      Msg("user", "find shoes")>>,
       page_context |-> TRUE, request |-> Request(Anonymous, "s1")] }

InitChat ==
    /\ InitStore /\ ToolIdle /\ ViewIdle /\ SiteIdle
    /\ c_pc = "start"
    /\ c_in \in ChatInputs
    /\ full_messages = << >> /\ iteration = 0
    /\ llm_sent = << >> /\ llm_resps = << >> /\ tool_log = << >>
    /\ c_result = NoChatResult

\* services.py 42-46
ChatStart ==
    /\ c_pc = "start"
    /\ full_messages' = <<SystemMsg(c_in.page_context)>> \o c_in.messages
    /\ iteration' = 0
    /\ c_pc' = "loop"
    /\ UNCHANGED <<c_in, llm_sent, llm_resps, tool_log, c_result,
                   storeVars, toolVars, viewVars, siteVars>>

\* services.py 63-120: the assistant message is appended, every call is run
ToolRoundDone(calls, acc) ==
    /\ llm_resps' = Append(llm_resps, LLMResponse("tools", "", calls))
    /\ full_messages' = acc.msgs
    /\ tool_log' = acc.log
    /\ c_in' = [c_in EXCEPT !.request = acc.req]
    /\ StoreBecomes(acc.st)
    /\ c_pc' = "loop"
    /\ UNCHANGED c_result

ToolRound(calls) ==
    ToolRoundDone(calls,
        RunToolCalls(calls,
            [msgs |-> Append(full_messages, AssistantToolMsg("", calls)),
             st |-> Store, req |-> c_in.request, log |-> tool_log]))

\* services.py 47-124 and 134-141: one iteration of the while loop
LLMCall(Calls, perResp, total) ==
    /\ c_pc = "loop"
    /\ LoopContinues(iteration)
    /\ iteration' = iteration + 1
    /\ llm_sent' = Append(llm_sent, full_messages)
    /\ \/ \* create() raises: the outer except returns the error dict
          /\ llm_resps' = Append(llm_resps, LLMResponse("error", "", << >>))
          /\ c_result' = ChatResult(ErrorReply, << >>, << >>, "APIError")
          /\ c_pc' = "done"
          /\ UNCHANGED <<c_in, full_messages, tool_log, storeVars>>
       \/ \* no tool calls: the final response
          \E text \in TextContents :
            /\ llm_resps' = Append(llm_resps, LLMResponse("text", text, << >>))
            /\ c_result' = _format_response(text, full_messages)
            /\ c_pc' = "done"
            /\ UNCHANGED <<c_in, full_messages, tool_log, storeVars>>
       \/ \* tool calls: the loop continues
          \E picked \in CallSeqs(Calls, perResp) :
            /\ CountRole(full_messages, "tool") + Len(picked) <= total
            /\ ToolRound(WithIds(picked, 10 * (iteration + 1)))
    /\ UNCHANGED <<toolVars, viewVars, siteVars>>

\* a cap that formats the last content instead of apologising
MaxIterationsReachedFormats ==
    /\ c_pc = "loop"
    /\ ~LoopContinues(iteration)
    /\ c_result' = _format_response("", full_messages)
    /\ c_pc' = "done"
    /\ UNCHANGED <<c_in, full_messages, iteration, llm_sent, llm_resps, tool_log,
                   storeVars, toolVars, viewVars, siteVars>>
\* services.py 126-132: the while condition fails
MaxIterationsReached ==
    /\ c_pc = "loop"
    /\ ~LoopContinues(iteration)
    /\ c_result' = ChatResult(Apology, << >>, << >>, "")
    /\ c_pc' = "done"
    /\ UNCHANGED <<c_in, full_messages, iteration, llm_sent, llm_resps, tool_log,
                   storeVars, toolVars, viewVars, siteVars>>

ChatLoop == LLMCall(ChatCalls, MaxCallsPerResp, MaxToolCalls)
NextChat == ChatStart \/ ChatLoop \/ MaxIterationsReached
SpecChat == InitChat /\ [][NextChat]_vars
\* the service is sequential code: it runs on until it returns
FairSpecChat == SpecChat /\ WF_vars(NextChat)

(***************************************************************************)
(* Spec: requests to the chat endpoint (views.py 48-156), one at a time.   *)
(* The view runs up to the call of the service (ChatBegin), the service    *)
(* runs its loop (ChatStart, ViewLoop, MaxIterationsReached), and the view *)
(* stores the reply and answers (ChatFinish).                              *)
(***************************************************************************)
HistoryLimit == 12
NoUser == ""

Row(role, content) == [role |-> role, content |-> content]
ConvRow(u, k) == [user |-> u, session_key |-> k, total_messages |-> 0]
HttpRequest(msg, cid, ctx, u, k) ==
    [message |-> msg, conversation_id |-> cid, page_context |-> ctx,
     user |-> u, session_key |-> k]
HttpResponse(status, cid, reply) ==
    [status |-> status, conversation_id |-> cid, reply |-> reply]

\* the requests a client can send now: with or without text, naming no
\* conversation, one of the ids, or an id no conversation has
HttpRequests ==
    { HttpRequest(msg, cid, who[3], who[1], who[2]) :
        msg \in {"", "hello"},
        cid \in {""} \cup ConversationIds \cup {"stale-id"},
        who \in {<<"alice", "s1", TRUE>>, <<Anonymous, NoSession, FALSE>>} }

IsChatRole(r) == r.role \in {"user", "assistant"}
\* a history that is the oldest rows instead of the latest
_get_conversation_history_oldest(rows, limit) ==
    [i \in 1..(IF Len(SelectSeq(rows, IsChatRole)) < limit
               THEN Len(SelectSeq(rows, IsChatRole)) ELSE limit) |->
        Msg(SelectSeq(rows, IsChatRole)[i].role, SelectSeq(rows, IsChatRole)[i].content)]
\* _get_conversation_history (views.py 221-245)
_get_conversation_history(rows, limit) ==
    [i \in 1..Len(LastN(SelectSeq(rows, IsChatRole), limit)) |->
        Msg(LastN(SelectSeq(rows, IsChatRole), limit)[i].role,
            LastN(SelectSeq(rows, IsChatRole), limit)[i].content)]

ServerError == HttpResponse(500, "", "I apologize, but I encountered an error. Please try again.")

\* Conversation.conversation_id is unique (models.py 8): a second row with
\* the id new is refused
IdNeverTaken(new, convs) == FALSE
IdTaken(new, convs) == new \in DOMAIN convs

\* views.py 129-133: the row of the assistant's reply
StoredReplyLost(rows, result) == rows
StoredReply(rows, result) == Append(rows, Row("assistant", result.reply))

\* the view answers: its locals and those of the service are gone
Answer(resp) ==
    /\ responses' = responses + 1
    /\ last_response' = resp
    /\ v_pc' = "idle"
    /\ c_pc' = "idle" /\ c_in' = NoChatInput /\ full_messages' = << >>
    /\ iteration' = 0 /\ llm_sent' = << >> /\ llm_resps' = << >>
    /\ tool_log' = << >> /\ c_result' = NoChatResult

\* views.py 108-126, once the conversation cid is at hand: the context row,
\* the history, the user message row, and the construction of the service
Converse(req, cid, key, rows, ctxs) ==
    /\ contexts' = IF req.page_context THEN [ctxs EXCEPT ![cid] = @ + 1] ELSE ctxs
    /\ messages' = [rows EXCEPT ![cid] = Append(@, Row("user", req.message))]
    /\ IF api_key_set
       THEN /\ v_pc' = "service" /\ v_req' = req /\ v_conv' = cid
            /\ c_pc' = "start"
            /\ c_in' = [messages |->
                            Append(_get_conversation_history(rows[cid], HistoryLimit),
                                   Msg("user", req.message)),
                        page_context |-> req.page_context,
                        request |-> Request(req.user, key)]
            /\ full_messages' = << >> /\ iteration' = 0
            /\ llm_sent' = << >> /\ llm_resps' = << >> /\ tool_log' = << >>
            /\ c_result' = NoChatResult
            /\ UNCHANGED <<responses, last_response>>
       ELSE \* AssistantService() raises ValueError: the view answers 500
            /\ Answer(ServerError)
            /\ v_req' = req /\ v_conv' = cid

\* views.py 76-126 with _get_or_create_conversation (views.py 183-218)
ChatView(req) ==
    /\ v_pc = "idle"
    /\ req.session_key = NoSession => SessionKeys \ sessions # {}
    /\ IF req.message = ""
       THEN /\ Answer(HttpResponse(400, "", "Please enter a message."))
            /\ v_req' = req /\ v_conv' = ""
            /\ UNCHANGED <<conversations, messages, contexts, sessions>>
       ELSE LET key == IF req.session_key = NoSession THEN NewSessionKey(Store)
                       ELSE req.session_key
                user == IF req.user = Anonymous THEN NoUser ELSE req.user
            IN  /\ sessions' = sessions \cup {key}
                /\ IF req.conversation_id # "" /\ req.conversation_id \in DOMAIN conversations
                   THEN \* an existing conversation, taken over by a user if it has none
                        /\ conversations' =
                              IF user # NoUser /\ conversations[req.conversation_id].user = NoUser
                              THEN [conversations EXCEPT ![req.conversation_id].user = user]
                              ELSE conversations
                        /\ Converse(req, req.conversation_id, key, messages, contexts)
                   ELSE \* a new conversation under a random uuid4
                        \E new \in ConversationIds :
                          IF IdTaken(new, conversations)
                          THEN \* IntegrityError: the view answers 500
                               /\ Answer(ServerError)
                               /\ v_req' = req /\ v_conv' = ""
                               /\ UNCHANGED <<conversations, messages, contexts>>
                          ELSE /\ conversations' = (new :> ConvRow(user, key)) @@ conversations
                               /\ Converse(req, new, key, (new :> << >>) @@ messages,
                                           (new :> 0) @@ contexts)
    /\ UNCHANGED <<product_stock, product_active, carts, cart_items, cache,
                   toolVars, api_key_set>>

\* a request of a client whose count is below the limit of the rate limiter
ChatBegin(req) ==
    /\ responses < MaxRequests
    /\ ChatView(req)
    /\ UNCHANGED siteVars

\* views.py 128-143: the reply is stored, the counters are saved
ChatFinish ==
    /\ v_pc = "service"
    /\ c_pc = "done"
    /\ messages' = [messages EXCEPT ![v_conv] = StoredReply(@, c_result)]
    /\ conversations' = [conversations EXCEPT ![v_conv].total_messages = @ + 2]
    /\ Answer(HttpResponse(200, v_conv, c_result.reply))
    /\ UNCHANGED <<v_req, v_conv, contexts, api_key_set, storeVars, toolVars, siteVars>>

\* the tool calls the endpoint asks for in Spec: a search that finds products
ViewCalls == { ToolCall(0, "search_products", TRUE, EmptyObj) }
ViewLoop == LLMCall(ViewCalls, 1, max_iterations)

Init ==
    /\ InitStore /\ ToolIdle /\ ChatIdle /\ SiteIdle
    /\ api_key_set \in BOOLEAN
    /\ conversations = [c \in {} |-> ConvRow(NoUser, NoSession)]
    /\ messages = [c \in {} |-> << >>]
    /\ contexts = [c \in {} |-> 0]
    /\ v_pc = "idle" /\ v_req = NoHttpRequest /\ v_conv = ""
    /\ responses = 0 /\ last_response = NoHttpResponse

Next ==
    \/ \E req \in HttpRequests : ChatBegin(req)
    \/ ChatStart
    \/ ViewLoop
    \/ MaxIterationsReached
    \/ ChatFinish
Spec == Init /\ [][Next]_vars

(***************************************************************************)
(* SpecHistory: Spec for a conversation of alice that has rows already,    *)
(* fewer or more than the history limit.                                   *)
(***************************************************************************)
MaxHistoryRows == 14
MaxHistoryRequests == 2

\* the rows of earlier requests: a user message and the reply to it, in turn
StoredRows(n) ==
    [i \in 1..n |-> Row(IF i % 2 = 1 THEN "user" ELSE "assistant", ToString(i))]
HistoryRequests ==
    { HttpRequest("hello", cid, TRUE, "alice", "s1") : cid \in {"", "c1"} }

HistoryBegin(req) ==
    /\ responses < MaxHistoryRequests
    /\ ChatView(req)
    /\ UNCHANGED siteVars

InitHistory ==
    /\ InitStore /\ ToolIdle /\ ChatIdle /\ SiteIdle
    /\ api_key_set = TRUE
    /\ \E n \in {0} \cup ((HistoryLimit - 1)..MaxHistoryRows) :
          messages = ("c1" :> StoredRows(n))
    /\ conversations = ("c1" :> [ConvRow("alice", "s1") EXCEPT !.total_messages =
                                    Len(messages["c1"])])
    /\ contexts = ("c1" :> 0)
    /\ v_pc = "idle" /\ v_req = NoHttpRequest /\ v_conv = ""
    /\ responses = 0 /\ last_response = NoHttpResponse

NextHistory ==
    \/ \E req \in HistoryRequests : HistoryBegin(req)
    \/ ChatStart
    \/ ViewLoop
    \/ MaxIterationsReached
    \/ ChatFinish
SpecHistory == InitHistory /\ [][NextHistory]_vars

(***************************************************************************)
(* SpecShop: the cart and checkout views of store/views.py and the         *)
(* assistant's add_to_cart tool, one request at a time.  A CartItem row is *)
(* named by the owner of its cart and its product; an Order is kept with   *)
(* its OrderItem rows.                                                     *)
(***************************************************************************)
\* Cart.user and Cart.session_key of the cart of an owner; a cart made by
\* get_or_create(user=...) has no session key, one made by
\* get_or_create(session_key=...) has no user (store/views.py 175-182)
CartUser(o) == IF o \in Users THEN o ELSE NoUser
CartSessionKey(o) == IF o \in SessionKeys THEN o ELSE NoSession

ProductPrice == (1 :> 10) @@ (2 :> 20) @@ (3 :> 30)

ShopOp(op, req, owner, pid, q, status) ==
    [op |-> op, user |-> req.user, session_key |-> req.session_key,
     owner |-> owner, product |-> pid, quantity |-> q, status |-> status,
     quantity_added |-> 0]

\* store/views.py 175-182: get_or_create_cart, which opens a session for a
\* visitor that has none
CartKey(req) ==
    IF req.user # Anonymous \/ req.session_key # NoSession
    THEN req.session_key ELSE NewSessionKey(Store)
CartOwner(req) == IF req.user # Anonymous THEN req.user ELSE CartKey(req)
SessionsWith(k) == IF k = NoSession THEN sessions ELSE sessions \cup {k}

\* a visitor without a session can be given one
CanOpenSession(req) ==
    (req.user = Anonymous /\ req.session_key = NoSession) => SessionKeys \ sessions # {}

\* store/views.py 203-210
Added(old, quantity, stock) ==
    IF old # 0
    THEN (IF old + quantity > stock THEN stock ELSE old + quantity)
    ELSE quantity

\* store/views.py 185-217: the view add_to_cart
store_add_to_cart(req, pid, quantity) ==
    /\ CanOpenSession(req)
    /\ IF ~IsActive(Store, pid)
       THEN /\ shop_op' = ShopOp("add_to_cart", req, "", pid, quantity, "404")
            /\ UNCHANGED <<carts, cart_items, sessions>>
       ELSE IF quantity < 1 \/ quantity > product_stock[pid]
       THEN /\ shop_op' = ShopOp("add_to_cart", req, "", pid, quantity, "error")
            /\ UNCHANGED <<carts, cart_items, sessions>>
       ELSE /\ carts' = carts \cup {CartOwner(req)}
            /\ sessions' = SessionsWith(CartKey(req))
            /\ cart_items' = [cart_items EXCEPT ![CartOwner(req)][pid] =
                                  Added(@, quantity, product_stock[pid])]
            /\ shop_op' = ShopOp("add_to_cart", req, CartOwner(req), pid, quantity, "ok")
    /\ UNCHANGED <<product_stock, product_active, cache, orders, units_sold>>

\* tools.py 553-673, called with the request of the chat
ToolAdded(req, pid, quantity, ran) ==
    /\ StoreBecomes(ran.st)
    /\ shop_op' =
          [ShopOp("tool_add_to_cart", req,
                  IF req.user # Anonymous THEN req.user ELSE ran.req.session_key,
                  pid, quantity, IF ran.result.success THEN "ok" ELSE "error")
           EXCEPT !.quantity_added =
                     IF ran.result.success THEN ran.result.quantity_added ELSE 0]
    /\ UNCHANGED <<orders, units_sold>>

tool_add_to_cart(req, pid, quantity) ==
    /\ CanOpenSession(req)
    /\ ToolAdded(req, pid, quantity,
                 add_to_cart(Store, [product_id |-> IntV(pid), quantity |-> IntV(quantity)],
                             req))

\* store/views.py 239-247 and 273-281: the check that the item is the
\* requester's
NotOwnItem(req, o) ==
    IF req.user # Anonymous
    THEN CartUser(o) # req.user
    ELSE CartSessionKey(o) # req.session_key

\* track_interaction opens a session for a visitor that has none
\* (store/tracking.py 18-22 and 41)
TrackedSessions(req) ==
    IF req.user = Anonymous /\ req.session_key = NoSession
    THEN sessions \cup {NewSessionKey(Store)} ELSE sessions

\* store/views.py 249-263
UpdatedToAny(old, quantity, stock) == quantity
Updated(old, quantity, stock) ==
    IF quantity < 1 THEN 0
    ELSE IF quantity > stock THEN old
    ELSE quantity

\* store/views.py 234-265; the item o, pid is a row
update_cart_item(req, o, pid, quantity) ==
    /\ cart_items[o][pid] > 0
    /\ IF NotOwnItem(req, o)
       THEN /\ shop_op' = ShopOp("update_cart_item", req, o, pid, quantity, "refused")
            /\ UNCHANGED <<cart_items, sessions>>
       ELSE /\ CanOpenSession(req)
            /\ cart_items' = [cart_items EXCEPT ![o][pid] =
                                  Updated(@, quantity, product_stock[pid])]
            /\ sessions' = IF quantity > product_stock[pid] THEN sessions
                           ELSE TrackedSessions(req)
            /\ shop_op' = ShopOp("update_cart_item", req, o, pid, quantity,
                                 IF quantity >= 1 /\ quantity > product_stock[pid]
                                 THEN "error" ELSE "ok")
    /\ UNCHANGED <<product_stock, product_active, carts, cache, orders, units_sold>>

\* store/views.py 268-292
remove_from_cart(req, o, pid) ==
    /\ cart_items[o][pid] > 0
    /\ IF NotOwnItem(req, o)
       THEN /\ shop_op' = ShopOp("remove_from_cart", req, o, pid, 0, "refused")
            /\ UNCHANGED <<cart_items, sessions>>
       ELSE /\ CanOpenSession(req)
            /\ cart_items' = [cart_items EXCEPT ![o][pid] = 0]
            /\ sessions' = TrackedSessions(req)
            /\ shop_op' = ShopOp("remove_from_cart", req, o, pid, 0, "ok")
    /\ UNCHANGED <<product_stock, product_active, carts, cache, orders, units_sold>>

\* OrderItem.save copies the product's price (store/models.py 240-245)
OrderItemRow(p, q) == [product |-> p, quantity |-> q, product_price |-> ProductPrice[p]]
CartProducts(o) == { p \in Products : cart_items[o][p] > 0 }

\* store/views.py 324-335: one OrderItem per cart item, then the stock of
\* its product is lowered and saved.  Product.stock is a
\* PositiveIntegerField (store/models.py 46): the save of a negative stock
\* is refused by the database and the view stops there.
RECURSIVE SellItems(_, _, _)
SellItems(pids, items, acc) ==
    IF pids = << >> THEN acc
    ELSE IF acc.stock[Head(pids)] - items[Head(pids)] < 0
    THEN [stock |-> acc.stock, units |-> acc.units,
          rows |-> Append(acc.rows, OrderItemRow(Head(pids), items[Head(pids)])),
          exc |-> "IntegrityError"]
    ELSE SellItems(Tail(pids), items,
                   [stock |-> [acc.stock EXCEPT ![Head(pids)] = @ - items[Head(pids)]],
                    units |-> [acc.units EXCEPT ![Head(pids)] = @ + items[Head(pids)]],
                    rows |-> Append(acc.rows, OrderItemRow(Head(pids), items[Head(pids)])),
                    exc |-> ""])

\* store/tracking.py 132-159: for every item of the order the function
\* reads item.price, which an OrderItem does not have
track_order_placed(rows) == IF rows # << >> THEN "AttributeError" ELSE ""

OrderRow(u, rows) == [user |-> u, items |-> rows]

\* store/views.py 307-347: a POST with a valid form
OrderPlaced(req, sold) ==
    /\ orders' = Append(orders, OrderRow(req.user, sold.rows))
    /\ product_stock' = sold.stock
    /\ units_sold' = sold.units
    /\ IF sold.exc # ""
       THEN /\ UNCHANGED cart_items
            /\ shop_op' = ShopOp("checkout", req, req.user, 0, 0, sold.exc)
       ELSE IF track_order_placed(sold.rows) # ""
       THEN /\ UNCHANGED cart_items
            /\ shop_op' = ShopOp("checkout", req, req.user, 0, 0,
                                 track_order_placed(sold.rows))
       ELSE /\ cart_items' = [cart_items EXCEPT ![req.user] = [p \in Products |-> 0]]
            /\ shop_op' = ShopOp("checkout", req, req.user, 0, 0, "ok")

\* store/views.py 295-361
checkout(req, valid_post) ==
    /\ IF req.user = Anonymous
       THEN /\ shop_op' = ShopOp("checkout", req, "", 0, 0, "login")
            /\ UNCHANGED <<orders, product_stock, units_sold, cart_items>>
       ELSE IF req.user \notin carts
       THEN /\ shop_op' = ShopOp("checkout", req, "", 0, 0, "404")
            /\ UNCHANGED <<orders, product_stock, units_sold, cart_items>>
       ELSE IF CartProducts(req.user) = {}
       THEN /\ shop_op' = ShopOp("checkout", req, req.user, 0, 0, "empty")
            /\ UNCHANGED <<orders, product_stock, units_sold, cart_items>>
       ELSE IF ~valid_post
       THEN /\ shop_op' = ShopOp("checkout", req, req.user, 0, 0, "form")
            /\ UNCHANGED <<orders, product_stock, units_sold, cart_items>>
       ELSE /\ Len(orders) < MaxOrders
            /\ OrderPlaced(req,
                   SellItems(IdsInOrder(CartProducts(req.user)), cart_items[req.user],
                             [stock |-> product_stock, units |-> units_sold,
                              rows |-> << >>, exc |-> ""]))
    /\ UNCHANGED <<product_active, carts, cache, sessions>>

\* the clients of the store: two users, a visitor without a session, and
\* the visitors of the sessions opened so far
ShopClients ==
    { Request("alice", "s1"), Request("bob", "s1"), Request(Anonymous, NoSession) }
    \cup { Request(Anonymous, k) : k \in sessions \ {"s1"} }
ShopQuantities == {0, 1, 2, 3}
\* the products asked for in add-to-cart requests: one on sale, one withdrawn
ShopProducts == {1, 2}

InitShop ==
    /\ product_stock = Stock0
    /\ product_active = Active0
    /\ carts = {"alice"}
    /\ cart_items = CartItems0
    /\ cache = {}
    /\ sessions = {"s1"}
    /\ ToolIdle /\ ChatIdle /\ ViewIdle /\ SiteIdle

\* the clock stands still in SpecShop, so the updated_at that product.save()
\* writes at checkout is the one the row has
ShopFrame ==
    UNCHANGED <<toolVars, chatVars, viewVars, rateVars, contentVars, searchVars,
                raceVars, histVars>>

\* accounts/views.py 30-50: a POST of the login form by the visitor req with
\* the name of user u and a password that fits or not.  login() gives the
\* session a new key; the carts are not touched.  The key the session had
\* stays in sessions, so that it is not given to another visitor.
user_login(req, u, valid) ==
    /\ shop_op' = ShopOp("user_login", req, u, 0, 0,
                         IF req.user # Anonymous THEN "home"
                         ELSE IF valid THEN "ok" ELSE "invalid")
    /\ UNCHANGED <<storeVars, orders, units_sold>>

NextShop ==
    \/ \E req \in ShopClients, pid \in ShopProducts, q \in ShopQuantities :
          store_add_to_cart(req, pid, q) /\ ShopFrame
    \/ \E req \in ShopClients, pid \in ShopProducts, q \in ShopQuantities :
          tool_add_to_cart(req, pid, q) /\ ShopFrame
    \/ \E req \in ShopClients, o \in Owners, pid \in ShopProducts, q \in ShopQuantities :
          update_cart_item(req, o, pid, q) /\ ShopFrame
    \/ \E req \in ShopClients, o \in Owners, pid \in ShopProducts :
          remove_from_cart(req, o, pid) /\ ShopFrame
    \/ \E req \in ShopClients, valid_post \in BOOLEAN :
          checkout(req, valid_post) /\ ShopFrame
    \/ \E req \in ShopClients, u \in Users, valid \in BOOLEAN :
          user_login(req, u, valid) /\ ShopFrame
SpecShop == InitShop /\ [][NextShop]_vars

(***************************************************************************)
(* SpecCheckoutRace: the checkouts of two users in flight together.  The   *)
(* view runs outside a transaction, so each of its queries is a step: the  *)
(* order row, then for every cart item the OrderItem row (for which the    *)
(* product is loaded) and the save of the product, then the tracking and   *)
(* the clearing of the cart.                                               *)
(***************************************************************************)
RECURSIVE CartRows(_, _)
CartRows(pids, items) ==
    IF pids = << >> THEN << >>
    ELSE <<[product |-> Head(pids), quantity |-> items[Head(pids)]]>>
         \o CartRows(Tail(pids), items)

RaceFrame ==
    UNCHANGED <<product_active, carts, cache, sessions, toolVars, chatVars,
                viewVars, rateVars, contentVars, searchVars, rl_reads, histVars>>

\* store/views.py 297-322: the order row of a valid POST; cart.items.all()
\* is read when the loop starts
CheckoutBegun(u) ==
    /\ checkouts[u].pc = "idle"
    /\ u \in carts /\ CartProducts(u) # {}
    /\ Len(orders) < MaxOrders
    /\ orders' = Append(orders, OrderRow(u, << >>))
    /\ checkouts' = [checkouts EXCEPT ![u] =
                        [NoCheckout EXCEPT
                           !.pc = "loop",
                           !.todo = CartRows(IdsInOrder(CartProducts(u)), cart_items[u]),
                           !.order = Len(orders) + 1]]
    /\ UNCHANGED <<product_stock, units_sold, cart_items, shop_op>>
    /\ RaceFrame

\* store/views.py 325-332: cart_item.product loads the product row, and the
\* OrderItem row is stored
ItemCreated(u) ==
    /\ checkouts[u].pc = "loop" /\ checkouts[u].todo # << >>
    /\ LET item == Head(checkouts[u].todo) IN
         /\ orders' = [orders EXCEPT ![checkouts[u].order].items =
                           Append(@, OrderItemRow(item.product, item.quantity))]
         /\ checkouts' = [checkouts EXCEPT ![u].pc = "loaded",
                                           ![u].product = item.product,
                                           ![u].stock = product_stock[item.product],
                                           ![u].units = units_sold[item.product]]
    /\ UNCHANGED <<product_stock, units_sold, cart_items, shop_op>>
    /\ RaceFrame

\* store/views.py 333-338: the loaded instance is changed and saved; a
\* negative stock is refused by the database and the view stops there
ItemSaved(u) ==
    /\ checkouts[u].pc = "loaded"
    /\ LET c == checkouts[u]
           q == Head(c.todo).quantity IN
         IF c.stock - q < 0
         THEN /\ checkouts' = [checkouts EXCEPT ![u] = NoCheckout]
              /\ shop_op' = ShopOp("checkout", Request(u, "s1"), u, 0, 0, "IntegrityError")
              /\ UNCHANGED <<product_stock, units_sold>>
         ELSE /\ product_stock' = [product_stock EXCEPT ![c.product] = c.stock - q]
              /\ units_sold' = [units_sold EXCEPT ![c.product] = c.units + q]
              /\ checkouts' = [checkouts EXCEPT ![u].pc = "loop",
                                                ![u].todo = Tail(c.todo)]
              /\ UNCHANGED shop_op
    /\ UNCHANGED <<orders, cart_items>>
    /\ RaceFrame

\* store/views.py 340-347
CheckoutEnded(u) ==
    /\ checkouts[u].pc = "loop" /\ checkouts[u].todo = << >>
    /\ LET exc == track_order_placed(orders[checkouts[u].order].items) IN
         IF exc # ""
         THEN /\ UNCHANGED cart_items
              /\ shop_op' = ShopOp("checkout", Request(u, "s1"), u, 0, 0, exc)
         ELSE /\ cart_items' = [cart_items EXCEPT ![u] = [p \in Products |-> 0]]
              /\ shop_op' = ShopOp("checkout", Request(u, "s1"), u, 0, 0, "ok")
    /\ checkouts' = [checkouts EXCEPT ![u] = NoCheckout]
    /\ UNCHANGED <<orders, product_stock, units_sold>>
    /\ RaceFrame

\* the carts of the two users when the checkouts start
RaceQuantities == {0, 1}
RaceProducts == {1, 3}
RaceCarts ==
    { c \in [Owners -> [Products -> RaceQuantities]] :
        /\ \A o \in Owners \ Users : c[o] = [p \in Products |-> 0]
        /\ \A u \in Users : /\ \A p \in Products \ RaceProducts : c[u][p] = 0
                            /\ \E p \in RaceProducts : c[u][p] > 0 }

InitCheckoutRace ==
    /\ product_stock = Stock0
    /\ product_active = Active0
    /\ carts = Users
    /\ cart_items \in RaceCarts
    /\ cache = {}
    /\ sessions = {"s1"}
    /\ ToolIdle /\ ChatIdle /\ ViewIdle /\ SiteIdle

NextCheckoutRace ==
    \/ \E u \in Users : CheckoutBegun(u)
    \/ \E u \in Users : ItemCreated(u)
    \/ \E u \in Users : ItemSaved(u)
    \/ \E u \in Users : CheckoutEnded(u)
SpecCheckoutRace == InitCheckoutRace /\ [][NextCheckoutRace]_vars

(***************************************************************************)
(* SpecRate: the chat endpoint behind its rate limiter (views.py 22-49),   *)
(* with time.  Requests arrive at instants one tick apart; an entry of     *)
(* Django's cache lives for the timeout given to cache.set.                *)
(***************************************************************************)
max_requests == 20
window_seconds == 60
TickSeconds == window_seconds \div 2

\* views.py 26-28
Identifier(req) == IF req.session_key = NoSession THEN "anonymous" ELSE req.session_key
\* cache.get(cache_key, 0)
CachedCount(k) == IF rl_ttl[k] > 0 THEN rl_count[k] ELSE 0

TooManyRequests ==
    HttpResponse(429, "", "Too many requests. Please wait a moment before asking again.")

\* views.py 33
OverLimitByOne(count) == count > max_requests
OverLimit(count) == count >= max_requests

\* one more request of client k is met: it opens a window if it finds no
\* cached count, and is counted in the window that is open
WindowMeets(k) ==
    rl_window' = [rl_window EXCEPT ![k] =
                     IF rl_ttl[k] = 0 THEN [open |-> TRUE, age |-> 0, seen |-> 1]
                     ELSE IF @.open THEN [@ EXCEPT !.seen = @ + 1]
                     ELSE @]

\* views.py 41: the count is stored again with a fresh timeout
CountStored(k) ==
    /\ rl_count' = [rl_count EXCEPT ![k] = CachedCount(k) + 1]
    /\ rl_ttl' = [rl_ttl EXCEPT ![k] = window_seconds]
    /\ WindowMeets(k)

\* views.py 25-43
wrapped_view(req) ==
    /\ v_pc = "idle"
    /\ responses < MaxRateRequests
    /\ IF OverLimit(CachedCount(Identifier(req)))
       THEN /\ Answer(TooManyRequests)
            /\ v_req' = req /\ v_conv' = ""
            /\ WindowMeets(Identifier(req))
            /\ UNCHANGED <<storeVars, toolVars, api_key_set, conversations,
                           messages, contexts, rl_count, rl_ttl, shopVars,
                           contentVars, searchVars, raceVars>>
       ELSE /\ CountStored(Identifier(req))
            /\ ChatView(req)
            /\ UNCHANGED <<shopVars, contentVars, searchVars, raceVars>>

\* time passes: cache entries age and expire
Tick ==
    /\ v_pc = "idle"
    /\ rl_ttl' = [k \in RateKeys |->
                    IF rl_ttl[k] > TickSeconds THEN rl_ttl[k] - TickSeconds ELSE 0]
    /\ rl_count' = [k \in RateKeys |->
                    IF rl_ttl[k] > TickSeconds THEN rl_count[k] ELSE 0]
    /\ rl_window' = [k \in RateKeys |->
                       IF rl_window[k].open /\ rl_window[k].age + TickSeconds < window_seconds
                       THEN [rl_window[k] EXCEPT !.age = @ + TickSeconds]
                       ELSE NoWindow]
    /\ UNCHANGED <<storeVars, toolVars, chatVars, viewVars, shopVars, contentVars,
                   searchVars, raceVars>>

\* the requests of SpecRate: one client, with or without text
RateRequests ==
    { HttpRequest("", "c1", FALSE, "alice", "s1"),
      HttpRequest("hello", "c1", FALSE, "alice", "s1") }

\* without an API key the view answers in one step (400, or 500 after the
\* user message is stored)
InitRate == Init /\ api_key_set = FALSE

NextRate ==
    \/ \E req \in RateRequests : wrapped_view(req) /\ UNCHANGED histVars
    \/ Tick /\ UNCHANGED histVars
SpecRate == InitRate /\ [][NextRate]_vars

(***************************************************************************)
(* SpecRateRace: chat requests of one client handled at the same time by   *)
(* two workers.  Between the cache.get and the cache.set of one request    *)
(* the other worker may run; no time passes.                               *)
(***************************************************************************)
\* one more request of client k is admitted at this instant
Admitted(k) == rl_recent' = [rl_recent EXCEPT ![k][1] = @ + 1]

\* views.py 26-31: worker i reads the count of the request's identifier
CountRead(i, req) ==
    /\ rl_reads[i] = NoRead
    /\ responses + Cardinality({ j \in Procs : rl_reads[j] # NoRead }) < MaxRateRequests
    /\ rl_reads' = [rl_reads EXCEPT ![i] = CachedCount(Identifier(req))]
    /\ UNCHANGED <<storeVars, toolVars, chatVars, viewVars, rateVars, shopVars,
                   contentVars, searchVars, checkouts, histVars>>

\* views.py 33-43: worker i goes on with the count it read
CountDecided(i, req) ==
    /\ rl_reads[i] # NoRead
    /\ rl_reads' = [rl_reads EXCEPT ![i] = NoRead]
    /\ IF OverLimit(rl_reads[i])
       THEN /\ Answer(TooManyRequests)
            /\ v_req' = req /\ v_conv' = ""
            /\ WindowMeets(Identifier(req))
            /\ UNCHANGED <<storeVars, toolVars, api_key_set, conversations,
                           messages, contexts, rl_count, rl_ttl, rl_recent>>
       ELSE /\ rl_count' = [rl_count EXCEPT ![Identifier(req)] = rl_reads[i] + 1]
            /\ rl_ttl' = [rl_ttl EXCEPT ![Identifier(req)] = window_seconds]
            /\ WindowMeets(Identifier(req))
            /\ Admitted(Identifier(req))
            /\ ChatView(req)
    /\ UNCHANGED <<shopVars, contentVars, searchVars, checkouts>>

\* the requests of SpecRateRace: one client, whose messages are empty
RaceRequests == { HttpRequest("", "c1", FALSE, "alice", "s1") }
NextRateRace ==
    \/ \E i \in Procs, req \in RaceRequests : CountRead(i, req)
    \/ \E i \in Procs, req \in RaceRequests : CountDecided(i, req)
SpecRateRace == InitRate /\ [][NextRateRace]_vars

(***************************************************************************)
(* SpecRateSpread: SpecRate for a client whose messages are empty, with    *)
(* the admissions of the last two ticks remembered.                        *)
(***************************************************************************)
SpreadView(req) ==
    /\ wrapped_view(req)
    /\ IF OverLimit(CachedCount(Identifier(req)))
       THEN UNCHANGED rl_recent
       ELSE Admitted(Identifier(req))
SpreadTick ==
    /\ Tick
    /\ rl_recent' = [k \in RateKeys |-> <<0, rl_recent[k][1], rl_recent[k][2]>>]
NextRateSpread ==
    \/ \E req \in RaceRequests : SpreadView(req)
    \/ SpreadTick
SpecRateSpread == InitRate /\ [][NextRateSpread]_vars

(***************************************************************************)
(* Generated content of the products: the review summary                   *)
(* (store/review_summary.py), the dynamic description                      *)
(* (store/dynamic_description.py), the product page that refreshes both    *)
(* (store/views.py 114-171) and the generate_review_summaries command.     *)
(* Time is counted in hours.                                               *)
(***************************************************************************)
MinReviews == 3
DayHours == 24
WeekHours == 7 * DayHours

\* what the LLM endpoint does when asked for a summary: a JSON object with
\* the four keys, an empty JSON object, an exception, text that is not JSON,
\* or a JSON object whose "pros" is not a list of strings
SummaryOutcomes == {"ok", "ok_empty", "api_error", "bad_json", "bad_pros"}
\* ... and when asked for a description: a text, an empty text, an exception
DescriptionOutcomes == {"ok", "empty", "api_error"}

\* review_summary.py 105-110
Summarised(outcome, count, t) ==
    [summary      |-> IF outcome = "ok" THEN "summary" ELSE "",
     pros         |-> IF outcome = "ok" THEN "pros" ELSE "",
     cons         |-> IF outcome = "ok" THEN "cons" ELSE "",
     sentiment    |-> IF outcome = "ok" THEN "positive" ELSE "neutral",
     generated_at |-> t,
     review_count |-> count]

\* what generate_review_summary gives: the value returned, the row as it is
\* stored afterwards, and the fields of the instance it was passed
Generated(returned, row, instance) ==
    [returned |-> returned, row |-> row, instance |-> instance]

\* review_summary.py 57-124: the try block.  OpenAI(api_key=None) raises.
SummaryAttemptStamping(row, count, t, outcome, key) ==
    IF ~key \/ outcome \in {"api_error", "bad_json"}
    THEN Generated("None", [row EXCEPT !.generated_at = t], row)
    ELSE Generated("result", Summarised(outcome, count, t), Summarised(outcome, count, t))
SummaryAttempt(row, count, t, outcome, key) ==
    IF ~key \/ outcome \in {"api_error", "bad_json"}
    THEN Generated("None", row, row)
    ELSE IF outcome = "bad_pros"
    THEN Generated("None", row, [row EXCEPT !.summary = "summary"])
    ELSE Generated(IF outcome = "ok" THEN "result" ELSE "{}",
                   Summarised(outcome, count, t), Summarised(outcome, count, t))

\* review_summary.py 11-124
generate_review_summary(row, count, t, outcome, key) ==
    IF count < MinReviews
    THEN Generated("None", row, row)
    ELSE IF row.generated_at # NoTime /\ t - row.generated_at < DayHours
    THEN Generated("None", row, row)
    ELSE IF row.generated_at # NoTime /\ row.review_count = count
    THEN Generated("None", row, row)
    ELSE SummaryAttempt(row, count, t, outcome, key)

\* review_summary.py 127-161
should_regenerate_summary_after_a_day(row, count, t) ==
    IF count < MinReviews THEN FALSE
    ELSE IF row.generated_at = NoTime THEN TRUE
    ELSE IF t - row.generated_at <= DayHours THEN FALSE
    ELSE row.review_count < count
should_regenerate_summary(row, count, t) ==
    IF count < MinReviews THEN FALSE
    ELSE IF row.generated_at = NoTime THEN TRUE
    ELSE IF t - row.generated_at < DayHours THEN FALSE
    ELSE row.review_count < count

\* dynamic_description.py 29-50
needs_regeneration_by_age(d, upd, t) ==
    IF d.text = "" \/ d.generated_at = NoTime THEN TRUE
    ELSE d.generated_at < t - WeekHours
needs_regeneration(d, upd, t) ==
    IF d.text = "" \/ d.generated_at = NoTime THEN TRUE
    ELSE IF d.generated_at < t - WeekHours THEN TRUE
    ELSE upd > d.generated_at

\* dynamic_description.py 102-148: None without a client or on an exception
generate_description(outcome, key) ==
    IF ~key \/ outcome = "api_error" THEN "None"
    ELSE IF outcome = "empty" THEN ""
    ELSE "description"

\* dynamic_description.py 150-173: the columns after the call
update_product_description(d, upd, t, force, outcome, key) ==
    IF ~force /\ ~needs_regeneration(d, upd, t) THEN d
    ELSE IF generate_description(outcome, key) \in {"None", ""} THEN d
    ELSE [text |-> generate_description(outcome, key), generated_at |-> t]

ContentOp(op, p, force, status, should, needs, asked, outcomes, returned) ==
    [op |-> op, product |-> p, force |-> force, status |-> status,
     should |-> should, needs |-> needs, asked |-> asked,
     outcomes |-> outcomes, returned |-> returned,
     described |-> [q \in Products |-> ""],
     previous |-> NoTime]

\* the page was built for product p: gen is what generate_review_summary gave
\* (the instance is then refreshed from the row), needs what needs_regeneration
\* said of the refreshed instance
PageBuilt(req, p, outcome, d_outcome, saves, should, needs, gen) ==
    /\ sessions' = TrackedSessions(req)
    /\ review_summary' = [review_summary EXCEPT ![p] = gen.row]
    /\ dynamic_description' = [dynamic_description EXCEPT ![p] =
          IF needs
          THEN update_product_description(@, updated_at[p], now, FALSE,
                                          d_outcome, api_key_set)
          ELSE @]
    /\ review_count' = [review_count EXCEPT ![p] = IF saves THEN @ + 1 ELSE @]
    /\ content_op' = [ContentOp("product_detail", p, FALSE,
                               IF saves THEN "302" ELSE "200", should, needs,
                               IF should THEN {p} ELSE {},
                               [q \in Products |->
                                  IF should /\ q = p THEN outcome ELSE ""],
                               [q \in Products |->
                                  IF q = p THEN gen.returned ELSE "not called"])
                        EXCEPT !.described[p] = IF needs THEN d_outcome ELSE "",
                               !.previous = dynamic_description[p].generated_at]

\* store/views.py 114-171.  post is "GET", or "new" / "again" for a valid
\* review form posted by a user who has not / has reviewed the product.
product_detail(req, p, outcome, d_outcome, post) ==
    /\ IF ~product_active[p]
       THEN /\ content_op' = [NoContentOp EXCEPT !.op = "product_detail",
                                                 !.product = p, !.status = "404"]
            /\ UNCHANGED <<sessions, review_count, review_summary,
                           dynamic_description>>
       ELSE PageBuilt(req, p, outcome, d_outcome,
               post = "new" /\ req.user # Anonymous,
               should_regenerate_summary(review_summary[p], review_count[p], now),
               needs_regeneration(dynamic_description[p], updated_at[p], now),
               IF should_regenerate_summary(review_summary[p], review_count[p], now)
               THEN generate_review_summary(review_summary[p], review_count[p],
                                            now, outcome, api_key_set)
               ELSE Generated("not called", review_summary[p], review_summary[p]))
    /\ UNCHANGED <<now, updated_at>>
    /\ UNCHANGED <<product_stock, product_active, carts, cart_items, cache>>
    /\ UNCHANGED <<toolVars, chatVars, viewVars, rateVars, shopVars, searchVars,
                   raceVars, histVars>>

\* generate_review_summaries.py 29-32
Selected(product_id) ==
    { p \in Products : product_active[p] /\ (product_id = 0 \/ p = product_id) }
\* generate_review_summaries.py 44-58: generate_review_summary is called
SummaryAsked(force, p) ==
    /\ review_count[p] >= MinReviews
    /\ force \/ review_summary[p].summary = ""

\* generate_review_summaries.py 24-74; product_id 0 stands for no --product-id
handle(force, product_id, outcomes) ==
    /\ review_summary' = [p \in Products |->
          IF p \in Selected(product_id) /\ SummaryAsked(force, p)
          THEN generate_review_summary(review_summary[p], review_count[p], now,
                                       outcomes[p], api_key_set).row
          ELSE review_summary[p]]
    /\ content_op' = ContentOp("generate_review_summaries", product_id, force,
          "done", FALSE, FALSE,
          { p \in Selected(product_id) : SummaryAsked(force, p) },
          [p \in Products |->
             IF p \in Selected(product_id) /\ SummaryAsked(force, p)
             THEN outcomes[p] ELSE ""],
          [p \in Products |->
             IF p \in Selected(product_id) /\ SummaryAsked(force, p)
             THEN generate_review_summary(review_summary[p], review_count[p], now,
                                          outcomes[p], api_key_set).returned
             ELSE "not called"])
    /\ UNCHANGED <<now, review_count, dynamic_description, updated_at>>
    /\ UNCHANGED <<storeVars, toolVars, chatVars, viewVars, rateVars, shopVars,
                   searchVars, raceVars, histVars>>

\* generate_dynamic_descriptions.py 38-46: the products processed; limit 0
\* stands for no --limit, and the active products come newest first
\* (Product.Meta.ordering), a product with a greater id being newer
Processed(product_id, limit) ==
    IF product_id # 0 THEN { p \in Products : product_active[p] /\ p = product_id }
    ELSE { p \in Products : /\ product_active[p]
                            /\ limit # 0 =>
                                 Cardinality({ q \in Products :
                                     product_active[q] /\ q > p }) < limit }
\* generate_dynamic_descriptions.py 60-66: the generator is called
DescriptionAsked(force, p) ==
    force \/ needs_regeneration(dynamic_description[p], updated_at[p], now)

\* generate_dynamic_descriptions.py 34-85
handle_descriptions(force, product_id, limit, d_outcomes) ==
    /\ dynamic_description' = [p \in Products |->
          IF p \in Processed(product_id, limit) /\ DescriptionAsked(force, p)
          THEN update_product_description(dynamic_description[p], updated_at[p],
                                          now, force, d_outcomes[p], api_key_set)
          ELSE dynamic_description[p]]
    /\ content_op' = [NoContentOp EXCEPT
          !.op = "generate_dynamic_descriptions", !.product = product_id,
          !.force = force, !.status = "done",
          !.described = [p \in Products |->
             IF p \in Processed(product_id, limit) /\ DescriptionAsked(force, p)
             THEN d_outcomes[p] ELSE ""]]
    /\ UNCHANGED <<now, review_count, review_summary, updated_at>>
    /\ UNCHANGED <<storeVars, toolVars, chatVars, viewVars, rateVars, shopVars,
                   searchVars, raceVars, histVars>>

\* a review of product p is disapproved or deleted in the admin
\* (Review.is_approved, store/models.py 114)
ReviewWithdrawn(p) ==
    /\ review_count[p] > 0
    /\ review_count' = [review_count EXCEPT ![p] = @ - 1]
    /\ content_op' = [NoContentOp EXCEPT !.op = "review_withdrawn", !.product = p]
    /\ UNCHANGED <<now, review_summary, dynamic_description, updated_at>>
    /\ UNCHANGED <<storeVars, toolVars, chatVars, viewVars, rateVars, shopVars,
                   searchVars, raceVars, histVars>>

\* product p is saved with all its columns (the admin, or checkout at
\* store/views.py 338): updated_at is an auto_now column (store/models.py 50)
ProductSaved(p) ==
    /\ updated_at' = [updated_at EXCEPT ![p] = now]
    /\ content_op' = [NoContentOp EXCEPT !.op = "product_saved", !.product = p]
    /\ UNCHANGED <<now, review_count, review_summary, dynamic_description>>
    /\ UNCHANGED <<storeVars, toolVars, chatVars, viewVars, rateVars, shopVars,
                   searchVars, raceVars, histVars>>

\* hours pass, up to a horizon
HoursPass(hours, horizon) ==
    /\ now + hours <= horizon
    /\ now' = now + hours
    /\ content_op' = NoContentOp
    /\ UNCHANGED <<review_count, review_summary, dynamic_description, updated_at>>
    /\ UNCHANGED <<storeVars, toolVars, chatVars, viewVars, rateVars, shopVars,
                   searchVars, raceVars, histVars>>

ContentClients == { Request("alice", "s1"), Request(Anonymous, "s1") }
InitContent ==
    /\ InitStore /\ ToolIdle /\ ChatIdle /\ ViewIdle /\ RateIdle /\ ShopIdle
    /\ SearchIdle /\ RaceIdle /\ HistIdle
    /\ api_key_set = TRUE
    /\ now = 0
    /\ review_summary = [p \in Products |-> NoSummary]
    /\ dynamic_description = [p \in Products |-> NoDescription]
    /\ updated_at = [p \in Products |-> 0]
    /\ content_op = NoContentOp

(***************************************************************************)
(* SpecSummary: 36 hours of page views, new and withdrawn reviews and runs *)
(* of the command.  Product 1 starts one review short of a summary,        *)
(* products 2 (withdrawn from sale) and 3 have three reviews.  The         *)
(* description endpoint is down.                                           *)
(***************************************************************************)
MaxReviews == 4
SummaryStep == DayHours \div 2
MaxSummarySteps == 3
SummaryHorizon == MaxSummarySteps * SummaryStep
Reviews0 == (1 :> 2) @@ (2 :> 3) @@ (3 :> 3)
CommandOutcomes == [Products -> {"ok", "api_error"}]

InitSummary == InitContent /\ review_count = Reviews0
NextSummary ==
    \/ \E req \in ContentClients, p \in Products, outcome \in SummaryOutcomes,
          post \in {"GET", "new", "again"} :
          /\ post = "new" => (p = 1 /\ review_count[p] < MaxReviews)
          /\ req.user = Anonymous => post # "again"
          /\ product_detail(req, p, outcome, "api_error", post)
    \/ \E force \in BOOLEAN, product_id \in {0, 1}, outcomes \in CommandOutcomes :
          handle(force, product_id, outcomes)
    \/ ReviewWithdrawn(1)
    \/ HoursPass(SummaryStep, SummaryHorizon)
SpecSummary == InitSummary /\ [][NextSummary]_vars

(***************************************************************************)
(* SpecDescription: ten days of page views and product edits; no        *)
(* product has reviews.                                                    *)
(***************************************************************************)
DescriptionStep == WeekHours \div 2
MaxDescriptionSteps == 3
DescriptionHorizon == MaxDescriptionSteps * DescriptionStep

DescriptionCommandOutcomes == [Products -> {"ok", "api_error"}]
InitDescription == InitContent /\ review_count = [p \in Products |-> 0]
NextDescription ==
    \/ \E req \in ContentClients, p \in Products, d_outcome \in DescriptionOutcomes :
          product_detail(req, p, "api_error", d_outcome, "GET")
    \/ \E force \in BOOLEAN, product_id \in {0, 1}, limit \in {0, 1},
          d_outcomes \in DescriptionCommandOutcomes :
          handle_descriptions(force, product_id, limit, d_outcomes)
    \/ \E p \in Products : ProductSaved(p)
    \/ HoursPass(DescriptionStep, DescriptionHorizon)
SpecDescription == InitDescription /\ [][NextDescription]_vars

(***************************************************************************)
(* The product search (store/ai_search.py): the LLM ranks the catalogue,   *)
(* and a keyword search answers when that fails.                           *)
(***************************************************************************)
SearchQueries == {"shoe", "bag", "lamp"}
\* the catalogue: 1 "Red Shoe" in "Shoes", 2 "Bag", which "goes with any
\* shoe", in "Accessories", 3 "Sandal" in "Shoes"
NameHas(q, p) == <<q, p>> \in {<<"shoe", 1>>, <<"bag", 2>>}
CategoryHas(q, p) == <<q, p>> \in {<<"shoe", 1>>, <<"shoe", 3>>}
DescriptionHas(q, p) == <<q, p>> \in {<<"shoe", 2>>}

\* ai_search.py 165-170: the rows of the query, best sold first
RECURSIVE BestSoldFirst(_, _)
BestSoldFirst(S, units) ==
    IF S = {} THEN << >>
    ELSE <<CHOOSE p \in S : \A q \in S : units[q] < units[p] \/ (units[q] = units[p] /\ p <= q)>>
         \o BestSoldFirst(S \ {CHOOSE p \in S : \A q \in S :
                                  units[q] < units[p] \/ (units[q] = units[p] /\ p <= q)},
                          units)
Found(query, active) ==
    { p \in Products : /\ active[p]
                       /\ \/ NameHas(query, p) \/ DescriptionHas(query, p)
                          \/ CategoryHas(query, p) }
\* ai_search.py 176-183
KeywordEntry(query, p) ==
    [product |-> p,
     score |-> IF NameHas(query, p) THEN 90
               ELSE IF CategoryHas(query, p) THEN 70 ELSE 60,
     reason |-> "Keyword match"]
SearchResult(exc, entries) == [exc |-> exc, entries |-> entries]

\* ai_search.py 154-185; a QuerySet refuses a negative slice bound
fallback_search(query, limit, active, units) ==
    IF limit < 0 THEN SearchResult("ValueError", << >>)
    ELSE SearchResult("",
            [i \in 1..Len(FirstN(BestSoldFirst(Found(query, active), units), limit)) |->
                KeywordEntry(query,
                    FirstN(BestSoldFirst(Found(query, active), units), limit)[i])])

\* one entry of the JSON array the LLM gives: product_id is the id of a
\* product, of none (9), or is missing (0); the score is a number or not
Rec(product_id, score) == [product_id |-> product_id, relevance_score |-> score]
BadScore == 0 - 1

\* ai_search.py 134-144: the entries of the recommendations, or the exception
\* one of them raises
RECURSIVE Mapped(_, _, _)
Mapped(recs, active, acc) ==
    IF recs = << >> THEN SearchResult("", acc)
    ELSE IF Head(recs).product_id = 0 THEN SearchResult("KeyError", << >>)
    ELSE IF ~(Head(recs).product_id \in Products /\ active[Head(recs).product_id])
    THEN Mapped(Tail(recs), active, acc)
    ELSE IF Head(recs).relevance_score = BadScore THEN SearchResult("ValueError", << >>)
    ELSE Mapped(Tail(recs), active,
                Append(acc, [product |-> Head(recs).product_id,
                             score |-> Head(recs).relevance_score,
                             reason |-> "Matches your search"]))

\* what the LLM endpoint does with the prompt
LLMAnswer(kind, recs) == [kind |-> kind, recs |-> recs]

\* ai_search.py 25-146: the body of the try
Ranked(limit, answer, key, active) ==
    IF ~key THEN SearchResult("Exception", << >>)
    ELSE IF answer.kind = "api_error" THEN SearchResult("APIError", << >>)
    ELSE IF answer.kind = "not_json" THEN SearchResult("JSONDecodeError", << >>)
    ELSE IF answer.kind = "not_list" THEN SearchResult("TypeError", << >>)
    ELSE Mapped(FirstN(answer.recs, limit), active, << >>)

\* ai_search.py 13-151
get_ai_search_results_or_nothing(query, limit, answer, key, active, units) ==
    IF Ranked(limit, answer, key, active).exc = ""
    THEN Ranked(limit, answer, key, active)
    ELSE SearchResult("", << >>)
get_ai_search_results(query, limit, answer, key, active, units) ==
    IF Ranked(limit, answer, key, active).exc = ""
    THEN Ranked(limit, answer, key, active)
    ELSE fallback_search(query, limit, active, units)

\* a search request is answered (store/views.py 70 passes the query of the
\* request); what fallback_search gives for it is recorded along
Searched(query, limit, answer, got) ==
    /\ search_op' = [query |-> query, limit |-> limit, answer |-> answer.kind,
                     exc |-> got.exc, entries |-> got.entries,
                     fallback |-> fallback_search(query, limit, product_active,
                                                  units_sold).entries]
    /\ UNCHANGED <<storeVars, toolVars, chatVars, viewVars, rateVars, shopVars,
                   contentVars, raceVars, histVars>>
search(query, limit, answer) ==
    Searched(query, limit, answer,
             get_ai_search_results(query, limit, answer, api_key_set,
                                   product_active, units_sold))

\* a product is withdrawn from sale or put back (Product.is_active)
ProductToggled(p) ==
    /\ product_active' = [product_active EXCEPT ![p] = ~@]
    /\ search_op' = NoSearchOp
    /\ UNCHANGED <<product_stock, carts, cart_items, cache, sessions>>
    /\ UNCHANGED <<toolVars, chatVars, viewVars, rateVars, shopVars, contentVars,
                   raceVars, histVars>>

(***************************************************************************)
(* SpecSearch: searches over a catalogue whose products come and go, with  *)
(* and without an API key.                                                 *)
(***************************************************************************)
MaxLimit == 2
MaxRecs == 2
RecSet == { Rec(1, 95), Rec(2, 80), Rec(3, BadScore), Rec(9, 70), Rec(0, 50) }
RecLists == UNION { [1..n -> RecSet] : n \in 0..MaxRecs }
              \cup { <<Rec(1, 95), Rec(3, 80), Rec(1, 60)>> }
SearchAnswers ==
    { LLMAnswer(k, << >>) : k \in {"api_error", "not_json", "not_list"} }
    \cup { LLMAnswer("list", recs) : recs \in RecLists }
UnitsSold0 == { (1 :> 5) @@ (2 :> 7) @@ (3 :> 1), (1 :> 0) @@ (2 :> 2) @@ (3 :> 9) }

InitSearch ==
    /\ InitStore /\ ToolIdle /\ ChatIdle /\ ViewIdle /\ RateIdle /\ ContentIdle
    /\ SearchIdle /\ RaceIdle /\ HistIdle
    /\ orders = << >> /\ shop_op = NoShopOp
    /\ units_sold \in UnitsSold0
NextSearch ==
    \/ \E query \in SearchQueries, limit \in 0..MaxLimit, answer \in SearchAnswers :
          search(query, limit, answer)
    \/ \E p \in Products : ProductToggled(p)
    \/ /\ api_key_set' = ~api_key_set
       /\ search_op' = NoSearchOp
       /\ UNCHANGED <<conversations, messages, contexts, v_pc, v_req, v_conv,
                      responses, last_response>>
       /\ UNCHANGED <<storeVars, toolVars, chatVars, rateVars, shopVars,
                      contentVars, raceVars, histVars>>
SpecSearch == InitSearch /\ [][NextSearch]_vars

(***************************************************************************)
(* SpecCatalogue: the assistant asks for the details of products that are  *)
(* withdrawn from sale and put back in between; an entry of the cache is   *)
(* dropped when its timeout has passed.                                    *)
(***************************************************************************)
\* _execute_tool("get_product_details", {"product_id": pid})
DetailsAsked(pid) ==
    /\ t_name' = "get_product_details"
    /\ t_args' = [k \in {"product_id"} |-> IntV(pid)]
    /\ t_req' = NoRequest
    /\ t_pc' = "executed"
    /\ ToolReturns(_execute_tool("get_product_details",
                                 [k \in {"product_id"} |-> IntV(pid)], Store, NoRequest))
    /\ UNCHANGED <<t_san, chatVars, viewVars, siteVars>>

\* the timeout given to cache.set has passed (tools.py 178: 300 seconds)
CacheExpires(key) ==
    /\ key \in cache
    /\ cache' = cache \ {key}
    /\ UNCHANGED <<product_stock, product_active, carts, cart_items, sessions>>
    /\ UNCHANGED <<toolVars, chatVars, viewVars, siteVars>>

InitCatalogue ==
    /\ product_stock = Stock0 /\ product_active = Active0
    /\ carts = {"alice"} /\ cart_items = CartItems0
    /\ cache = {} /\ sessions = {"s1"}
    /\ ToolIdle /\ ChatIdle /\ ViewIdle /\ SiteIdle
NextCatalogue ==
    \/ \E pid \in Products : DetailsAsked(pid)
    \/ \E p \in Products : ProductToggled(p)
    \/ \E pid \in Products : CacheExpires(<<"product_details", pid>>)
SpecCatalogue == InitCatalogue /\ [][NextCatalogue]_vars

(***************************************************************************)
(* Claims about AssistantService.chat (SpecChat, FairSpecChat).            *)
(***************************************************************************)
Resp(k) == llm_resps[k]
IsToolResp(k) == Resp(k).kind = "tools"
\* the messages in front of the assistant message of response k
Base(k) == Len(llm_sent[k])
\* a call whose arguments do not parse, or whose validation or execution raises
CallFails(tc) ==
    \/ ~tc.json_ok
    \/ /\ tc.name \in ToolNames
       /\ \/ _sanitize_args(tc.obj).exc # ""
          \/ ~(DOMAIN _sanitize_args(tc.obj).out \subseteq ToolParams(tc.name))
          \/ ~(ToolRequired(tc.name) \subseteq DOMAIN _sanitize_args(tc.obj).out)
IsFallback(r) == r.reply = Apology /\ r.cards = << >> /\ r.suggestions = << >>

\* C1: every invocation of chat reaches its return, and never issues more
\* than 5 completion calls, whatever the endpoint answers.
C1_TerminatesWithinFiveCalls ==
    /\ [](Len(llm_sent) <= 5 /\ Len(llm_resps) <= 5)
    /\ <>(c_pc = "done")
C1_Witness ==
    c_pc = "done" /\ Len(llm_sent) = 5 /\ \A k \in 1..5 : IsToolResp(k)

\* C2: once chat has returned, its result is the fallback apology with empty
\* cards and empty suggestions exactly when all of 5 responses asked for tools.
C2_FallbackIffFiveToolRounds ==
    c_pc = "done" =>
        (IsFallback(c_result)
            <=> (Len(llm_resps) = 5 /\ \A k \in 1..Len(llm_resps) : IsToolResp(k)))
C2_Witness ==
    /\ c_pc = "done" /\ IsFallback(c_result)
    /\ Len(llm_resps) = 5 /\ Resp(5).kind = "tools" /\ c_result.error = ""

\* what C3 says of the failing call j of response k, but for the next LLM call
C3_Handled(k, j) ==
    LET calls == Resp(k).tool_calls
        m == full_messages[Base(k) + 1 + j]
    IN  /\ Len(full_messages) >= Base(k) + 1 + Len(calls)
        /\ m.role = "tool" /\ m.tool_call_id = calls[j].id
        /\ m.result.success = FALSE /\ m.result.error # ""
        /\ \A i \in (j + 1)..Len(calls) :
              /\ full_messages[Base(k) + 1 + i].role = "tool"
              /\ full_messages[Base(k) + 1 + i].tool_call_id = calls[i].id
              /\ (~CallFails(calls[i]) /\ calls[i].name \in ToolNames
                    => full_messages[Base(k) + 1 + i].result.success)
        /\ (c_pc = "done" /\ c_result.error # "" => Resp(Len(llm_resps)).kind = "error")
FailingCalls ==
    { kj \in (1..Len(llm_resps)) \X (1..MaxCallsPerResp) :
        /\ IsToolResp(kj[1])
        /\ kj[2] <= Len(Resp(kj[1]).tool_calls)
        /\ CallFails(Resp(kj[1]).tool_calls[kj[2]]) }

\* C3 as stated: a failing tool call gets its {success: false, error} message,
\* the later calls of the response are processed, chat does not raise, and the
\* loop goes on to the next LLM call.
C3_AsStated ==
    \A kj \in FailingCalls :
        /\ C3_Handled(kj[1], kj[2])
        /\ (c_pc = "done" => Len(llm_sent) > kj[1])

\* C3 (amended): a failing tool call gets its {success: false, error} message,
\* the later calls of the response are processed, chat does not raise, and the
\* loop goes on to its next iteration: the next LLM call, or the fallback
\* return when the response was the 5th.
C3_FailureIsLocal ==
    \A kj \in FailingCalls :
        /\ C3_Handled(kj[1], kj[2])
        /\ (c_pc = "done" =>
              \/ Len(llm_sent) > kj[1]
              \/ kj[1] = 5 /\ IsFallback(c_result))
C3_Witness ==
    /\ Len(llm_sent) >= 2
    /\ IsToolResp(1) /\ Len(Resp(1).tool_calls) = 2
    /\ ~Resp(1).tool_calls[1].json_ok
    /\ ~CallFails(Resp(1).tool_calls[2])
    /\ full_messages[Base(1) + 2].result.success = FALSE
    /\ full_messages[Base(1) + 3].result.success = TRUE

\* C4: the list sent on the LLM call after a response with tool calls is the
\* list sent before, then the assistant message with those calls, then exactly
\* one tool message per call, with the ids of the calls in their order; and an
\* LLM call is only ever made first or after such a response.
C4_ToolResultsAnswerCalls ==
    \A k \in 1..Len(llm_sent) :
        k > 1 =>
          LET calls == Resp(k - 1).tool_calls
              prev == llm_sent[k - 1]
              sent == llm_sent[k]
          IN  /\ IsToolResp(k - 1)
              /\ Len(sent) = Len(prev) + 1 + Len(calls)
              /\ SubSeq(sent, 1, Len(prev)) = prev
              /\ sent[Len(prev) + 1].role = "assistant"
              /\ sent[Len(prev) + 1].tool_calls = calls
              /\ \A j \in 1..Len(calls) :
                    /\ sent[Len(prev) + 1 + j].role = "tool"
                    /\ sent[Len(prev) + 1 + j].tool_call_id = calls[j].id
                    /\ sent[Len(prev) + 1 + j].name = calls[j].name
C4_Witness ==
    /\ Len(llm_sent) >= 3
    /\ Len(Resp(1).tool_calls) = 2 /\ Len(Resp(2).tool_calls) = 1
    /\ Len(llm_sent[3]) = Len(llm_sent[1]) + 5

\* what C5 says of a response without tool calls, but for the reply
C5_ReturnsAtOnce(k) ==
    /\ k = Len(llm_resps) /\ Len(llm_sent) = k
    /\ \A i \in 1..(k - 1) : IsToolResp(i)
    /\ c_pc = "done"
    /\ full_messages = llm_sent[k]
    /\ Len(tool_log) <= CountRole(llm_sent[k], "tool")

\* C5 as stated: at the first response without tool calls chat returns with
\* that response's text as the reply, with no further LLM call or tool.
C5_AsStated ==
    \A k \in 1..Len(llm_resps) :
        Resp(k).kind = "text" =>
            C5_ReturnsAtOnce(k) /\ c_result.reply = Resp(k).content

\* C5 (amended): at the first response without tool calls chat returns with
\* that response's text as the reply, or with "How can I help you?" when the
\* text is empty, with no further LLM call or tool.
C5_TextEndsTheLoop ==
    \A k \in 1..Len(llm_resps) :
        Resp(k).kind = "text" =>
            /\ C5_ReturnsAtOnce(k)
            /\ c_result.reply = IF Resp(k).content = "" THEN Greeting
                                 ELSE Resp(k).content
            /\ c_result.error = ""
C5_Witness ==
    /\ Len(llm_resps) = 3 /\ Resp(3).kind = "text"
    /\ c_result.reply = "Found products!" /\ c_result.cards # << >>
    /\ c_pc = "done"

(***************************************************************************)
(* Claims about _sanitize_args and _execute_tool (SpecTool).               *)
(***************************************************************************)
IsNumber(v) == v.t \in {"int", "float", "inf"}

\* C6: whatever the argument object, what _sanitize_args returns has only
\* known keys, a positive integer product_id, an integer limit in 1..10, an
\* integer quantity in 1..100, min_price and max_price >= 0, min_rating in
\* [1, 5] and a sort among the five sort modes.
C6_SanitizedWithinLimits ==
    t_pc = "sanitized" /\ t_san.exc = "" =>
      LET o == t_san.out
          has(k) == k \in DOMAIN o
      IN  /\ DOMAIN o \subseteq KnownKeys
          /\ DOMAIN o \subseteq DOMAIN t_args
          /\ has("product_id") => o["product_id"].t = "int" /\ o["product_id"].n > 0
          /\ has("limit") => o["limit"].t = "int" /\ o["limit"].n \in 1..10
          /\ has("quantity") => o["quantity"].t = "int" /\ o["quantity"].n \in 1..100
          /\ has("min_price") => IsNumber(o["min_price"]) /\ Tenths(o["min_price"]) >= 0
          /\ has("max_price") => IsNumber(o["max_price"]) /\ Tenths(o["max_price"]) >= 0
          /\ has("min_rating") =>
                /\ IsNumber(o["min_rating"])
                /\ Tenths(o["min_rating"]) >= 10 /\ Tenths(o["min_rating"]) <= 50
          /\ has("sort") =>
                /\ o["sort"].t = "str"
                /\ o["sort"].s \in {"popular", "latest", "price_low_high",
                                    "price_high_low", "rating"}
C6_Witness ==
    /\ t_pc = "sanitized" /\ t_san.exc = ""
    /\ DOMAIN t_args = {"quantity", "min_rating"}
    /\ t_args["quantity"] = IntV(150) /\ t_san.out["quantity"] = IntV(100)
    /\ t_args["min_rating"] = NaNV /\ t_san.out["min_rating"] = IntV(5)

StoreUntouched ==
    /\ product_stock = Stock0 /\ product_active = Active0
    /\ carts = {"alice"} /\ cart_items = CartItems0
    /\ cache = {<<"product_details", 2>>} /\ sessions = {"s1"}
\* no tool function ran, the tables are as before, and the model is told
\* {success: false, error}
C7_Refused ==
    /\ t_res.called = ""
    /\ StoreUntouched
    /\ (t_res.exc # "" \/ (~t_res.result.success /\ t_res.result.error # ""))

\* C7 as stated: a call of an unregistered function, or with a product_id
\* that is not a positive integer, runs no tool and changes nothing.
C7_AsStated ==
    /\ t_pc = "executed"
    /\ \/ t_name \notin ToolNames
       \/ /\ "product_id" \in DOMAIN t_args
          /\ ~(t_args["product_id"].t = "int" /\ t_args["product_id"].n > 0)
    => C7_Refused

\* C7 (amended): a call of an unregistered function, or with a product_id
\* that int() does not turn into a positive integer (int() truncates a float,
\* parses a numeric string and takes true for 1), runs no tool and changes
\* nothing.
C7_RefusedCallsRunNothing ==
    /\ t_pc = "executed"
    /\ \/ t_name \notin ToolNames
       \/ /\ "product_id" \in DOMAIN t_args
          /\ t_args["product_id"] \in
                {IntV(-1), IntV(0), InfV(1), StrV("abc", 3), NoneV}
    => C7_Refused
C7_Witness ==
    /\ t_pc = "executed" /\ t_name = "add_to_cart"
    /\ t_req = Request("alice", "s1")
    /\ DOMAIN t_args = {"product_id", "quantity"}
    /\ t_args["product_id"] = IntV(0) /\ t_args["quantity"] = IntV(3)
    /\ t_res.exc = "ValueError" /\ t_res.called = "" /\ StoreUntouched

(***************************************************************************)
(* Claims about the chat endpoint (Spec).                                  *)
(***************************************************************************)
RowsAsMsgs(rows) == [i \in 1..Len(rows) |-> Msg(rows[i].role, rows[i].content)]
\* the step in which the view answers a request that reached the service
Finishes == v_pc = "service" /\ v_pc' = "idle"
\* the step in which the view takes up a request
Begins == v_pc = "idle" /\ responses < MaxRequests
            /\ (v_pc' = "service" \/ responses' = responses + 1)
HasRole(rows, role) == \E i \in 1..Len(rows) : rows[i].role = role

C9_CounterMatchesRows ==
    v_pc = "idle" =>
        \A c \in DOMAIN conversations :
            conversations[c].total_messages = Len(messages[c])

SameRows(c) ==
    /\ c \in DOMAIN conversations'
    /\ messages'[c] = messages[c]
    /\ conversations'[c] = conversations[c]
    /\ contexts'[c] = contexts[c]

\* C10: a request that names an existing conversation writes to that one only
\* and is answered with its id; a request that names none, or one that does
\* not exist, leaves every existing conversation as it was, and the
\* conversation it creates has an id that none of them has.
C10_ConversationsAreSeparate ==
    [][/\ Begins /\ v_req'.message # "" =>
            IF v_req'.conversation_id \in DOMAIN conversations
            THEN /\ v_conv' = v_req'.conversation_id
                 /\ DOMAIN conversations' = DOMAIN conversations
                 /\ messages'[v_conv'] = Append(messages[v_conv'], Row("user", v_req'.message))
                 /\ \A c \in DOMAIN conversations \ {v_conv'} : SameRows(c)
            ELSE /\ \A c \in DOMAIN conversations : SameRows(c)
                 /\ v_conv' \notin DOMAIN conversations
                 /\ v_conv' # "" =>
                       /\ DOMAIN conversations' = DOMAIN conversations \cup {v_conv'}
                       /\ messages'[v_conv'] = <<Row("user", v_req'.message)>>
                       /\ conversations'[v_conv'].total_messages = 0
       /\ Finishes =>
            /\ last_response'.status = 200
            /\ last_response'.conversation_id = v_conv
            /\ \A c \in DOMAIN conversations \ {v_conv} : SameRows(c)
            /\ DOMAIN conversations' = DOMAIN conversations]_vars
C10_Witness ==
    /\ v_pc = "service" /\ c_pc = "done"
    /\ DOMAIN conversations = {"c1", "c2"}
    /\ v_req.conversation_id = "c1" /\ v_conv = "c1"
    /\ Len(messages["c1"]) = 3 /\ Len(messages["c2"]) = 2
    /\ conversations["c1"].total_messages = 2

(***************************************************************************)
(* The rate limiter (SpecRate).                                            *)
(***************************************************************************)
\* a request arrives at the idle endpoint
RequestArrives == v_pc = "idle" /\ (v_pc' = "service" \/ responses' # responses)
RateRejected == responses' # responses /\ last_response'.status = 429

\* C11: for one client identifier, in the 60 seconds that follow a request
\* that found no count (the window), the first 20 requests are admitted and
\* every further request is answered 429 without running the view: it
\* creates no conversation and stores no message.
C11_FirstTwentyAdmitted ==
    [][ RequestArrives =>
          /\ rl_ttl[Identifier(v_req')] = 0 => ~RateRejected
          /\ rl_window[Identifier(v_req')].open =>
                (RateRejected <=> rl_window[Identifier(v_req')].seen >= max_requests)
          /\ RateRejected =>
                /\ v_pc' = "idle"
                /\ UNCHANGED <<conversations, messages, contexts, sessions,
                               rl_count, rl_ttl>> ]_vars

\* the 21st request of a window was refused after admitted ones had stored
\* their messages
C11_Witness ==
    /\ last_response.status = 429
    /\ rl_window[Identifier(v_req)].open
    /\ rl_window[Identifier(v_req)].seen = max_requests + 1
    /\ \E c \in DOMAIN messages : messages[c] # << >>

(***************************************************************************)
(* Carts and checkout (SpecShop).                                          *)
(***************************************************************************)
CartOps == {"add_to_cart", "tool_add_to_cart", "update_cart_item", "remove_from_cart"}
\* the carts that belong to the client of the request op: the user's, or
\* the session's, or the one of the session opened for the request
OwnCarts(op) ==
    IF op.user # Anonymous THEN {op.user}
    ELSE IF op.session_key # NoSession THEN {op.session_key}
    ELSE sessions' \ sessions

\* C12: no cart operation of one user or anonymous session changes or
\* deletes an item of a cart of a different user or session; update and
\* remove leave the item untouched unless its cart belongs to the
\* requesting user or session, also for a visitor without a session key.
C12_CartsAreIsolated ==
    [][ shop_op'.op \in CartOps =>
          \A o \in Owners \ OwnCarts(shop_op') : cart_items'[o] = cart_items[o] ]_vars

\* C13: every product's stock stays >= 0, and no checkout puts more units
\* of a product in its order than were in stock when it ran.
C13_StockNeverOversold ==
    [][ /\ \A p \in Products : product_stock'[p] >= 0
        /\ Len(orders') > Len(orders) =>
              \A i \in 1..Len(orders'[Len(orders')].items) :
                 orders'[Len(orders')].items[i].quantity
                    <= product_stock[orders'[Len(orders')].items[i].product] ]_vars

\* a checkout POST with a valid form and a non-empty cart was handled
ValidCheckout(op) ==
    op.op = "checkout" /\ op.status \in {"ok", "IntegrityError", "AttributeError"}

\* C14: a checkout POST with a valid form and a non-empty cart creates
\* exactly one order whose items mirror the cart's products and quantities
\* at the product's price, lowers each product's stock by the ordered
\* quantity, and leaves the user's cart empty.
C14_CheckoutPlacesTheOrder ==
    [][ ValidCheckout(shop_op') =>
          /\ Len(orders') = Len(orders) + 1
          /\ orders'[Len(orders')].user = shop_op'.user
          /\ Len(orders'[Len(orders')].items) = Cardinality(CartProducts(shop_op'.user))
          /\ \A p \in CartProducts(shop_op'.user) :
                /\ \E i \in 1..Len(orders'[Len(orders')].items) :
                      orders'[Len(orders')].items[i] =
                          [product |-> p, quantity |-> cart_items[shop_op'.user][p],
                           product_price |-> ProductPrice[p]]
                /\ product_stock'[p] = product_stock[p] - cart_items[shop_op'.user][p]
          /\ \A p \in Products : cart_items'[shop_op'.user][p] = 0 ]_vars

AddOps == {"add_to_cart", "tool_add_to_cart"}
Min(a, b) == IF a < b THEN a ELSE b

\* C15: add_to_cart (tool and view) with quantity q on a product on sale
\* with stock s: if q < 1 or q > s the carts are unchanged and an error is
\* reported; otherwise the item becomes min(old + q, s), old being 0 for a
\* new item, so it does not exceed s, and the quantity_added the tool
\* reports is the new quantity minus the old one.
C15_AddToCartWithinStock ==
    [][ (shop_op'.op \in AddOps /\ IsActive(Store, shop_op'.product)) =>
          IF shop_op'.quantity < 1 \/ shop_op'.quantity > product_stock[shop_op'.product]
          THEN cart_items' = cart_items /\ carts' = carts /\ shop_op'.status = "error"
          ELSE /\ shop_op'.status = "ok"
               /\ cart_items'[shop_op'.owner][shop_op'.product] =
                     Min(cart_items[shop_op'.owner][shop_op'.product] + shop_op'.quantity,
                         product_stock[shop_op'.product])
               /\ cart_items'[shop_op'.owner][shop_op'.product]
                     <= product_stock[shop_op'.product]
               /\ shop_op'.op = "tool_add_to_cart" =>
                     shop_op'.quantity_added =
                        cart_items'[shop_op'.owner][shop_op'.product]
                        - cart_items[shop_op'.owner][shop_op'.product] ]_vars

\* the tool has added to an item that was in the cart, up to the stock
C15_Witness ==
    /\ shop_op.op = "tool_add_to_cart" /\ shop_op.status = "ok"
    /\ shop_op.quantity_added < shop_op.quantity
    /\ cart_items[shop_op.owner][shop_op.product] = product_stock[shop_op.product]

\* the cart of owner o belongs to the client of the request op
IsOwner(op, o) ==
    \/ op.user # Anonymous /\ o = op.user
    \/ op.user = Anonymous /\ op.session_key # NoSession /\ o = op.session_key

\* C16: update_cart_item by the item's owner with quantity q deletes the
\* item if q < 1, leaves its quantity unchanged if q is greater than the
\* product's stock, and otherwise makes its quantity exactly q.
C16_UpdateSetsQuantity ==
    [][ (shop_op'.op = "update_cart_item" /\ IsOwner(shop_op', shop_op'.owner)) =>
          cart_items'[shop_op'.owner][shop_op'.product] =
             IF shop_op'.quantity < 1 THEN 0
             ELSE IF shop_op'.quantity > product_stock[shop_op'.product]
             THEN cart_items[shop_op'.owner][shop_op'.product]
             ELSE shop_op'.quantity ]_vars

\* a visitor has changed the quantity of an item of the cart of their session
C16_Witness ==
    /\ shop_op.op = "update_cart_item" /\ shop_op.status = "ok"
    /\ shop_op.user = Anonymous /\ shop_op.owner = shop_op.session_key
    /\ shop_op.quantity = 2
    /\ cart_items[shop_op.owner][shop_op.product] = 2

(***************************************************************************)
(* Claims about the generated content (SpecSummary, SpecDescription).      *)
(***************************************************************************)
\* the page of a product on sale has been built
PageServed(op) == op.op = "product_detail" /\ op.status # "404"

\* C17: should_regenerate_summary is true exactly when the product has at
\* least 3 approved reviews and either no summary was ever generated, or the
\* summary is at least 1 day (24 hours) old and there are more approved
\* reviews than the count recorded with it.
C17_ShouldRegenerateSummary ==
    [][ PageServed(content_op') =>
          content_op'.should =
             (/\ review_count[content_op'.product] >= 3
              /\ \/ review_summary[content_op'.product].generated_at = NoTime
                 \/ /\ now - review_summary[content_op'.product].generated_at >= 24
                    /\ review_count[content_op'.product] >
                          review_summary[content_op'.product].review_count) ]_vars

\* a page view found a summary exactly one day old with a review added since;
\* the regeneration it asked for failed, so the old summary is still there
C17_Witness ==
    /\ PageServed(content_op) /\ content_op.should /\ content_op.status = "200"
    /\ content_op.returned[content_op.product] = "None"
    /\ review_summary[content_op.product].generated_at # NoTime
    /\ now - review_summary[content_op.product].generated_at = 24
    /\ review_count[content_op.product] >
          review_summary[content_op.product].review_count

\* the outcomes in which the LLM call or the parsing of its answer fails
CallOrParsingFails == {"api_error", "bad_json"}

\* C18: when the LLM call or the parsing of its answer fails inside
\* generate_review_summary, it returns None and the product's summary,
\* pros, cons, sentiment, generation time and recorded review count keep
\* their values.
C18_FailureKeepsSummary ==
    [][ \A p \in content_op'.asked :
          content_op'.outcomes[p] \in CallOrParsingFails =>
             /\ content_op'.returned[p] = "None"
             /\ review_summary'[p] = review_summary[p] ]_vars

\* the answer to a regeneration asked by a page view was not JSON, and the
\* summary generated before is still stored
C18_Witness ==
    /\ PageServed(content_op) /\ content_op.product \in content_op.asked
    /\ content_op.outcomes[content_op.product] = "bad_json"
    /\ content_op.returned[content_op.product] = "None"
    /\ review_summary[content_op.product].summary = "summary"
    /\ review_summary[content_op.product].generated_at < now

\* C19: generate_review_summaries --force regenerates the summary of every
\* active product it selects that has at least 3 approved reviews, whether
\* or not a summary exists and whatever its age and recorded count, when
\* the LLM call succeeds.
C19_ForceRegenerates ==
    [][ (content_op'.op = "generate_review_summaries" /\ content_op'.force) =>
          \A p \in Products :
             (/\ product_active[p]
              /\ content_op'.product \in {0, p}
              /\ review_count[p] >= 3
              /\ content_op'.outcomes[p] = "ok") =>
                /\ content_op'.returned[p] = "result"
                /\ review_summary'[p] = Summarised("ok", review_count[p], now) ]_vars

\* C20: needs_regeneration is true exactly when the product has no dynamic
\* description, or no generation time, or the description was generated
\* 7 days (168 hours) ago or earlier, or updated_at is later than the
\* generation time.
C20_NeedsRegeneration ==
    [][ PageServed(content_op') =>
          content_op'.needs =
             (\/ dynamic_description[content_op'.product].text = ""
              \/ dynamic_description[content_op'.product].generated_at = NoTime
              \/ dynamic_description[content_op'.product].generated_at <= now - 168
              \/ updated_at[content_op'.product] >
                    dynamic_description[content_op'.product].generated_at) ]_vars

\* the description of product p was generated and neither have 7 days
\* passed since nor was the product saved later
DescriptionFresh(p) ==
    /\ dynamic_description[p].text # ""
    /\ dynamic_description[p].generated_at # NoTime
    /\ now - dynamic_description[p].generated_at < 168
    /\ updated_at[p] <= dynamic_description[p].generated_at
\* the description of product p was generated and the product saved later
SavedSinceGenerated(p) ==
    /\ dynamic_description[p].text # ""
    /\ dynamic_description[p].generated_at # NoTime
    /\ updated_at[p] > dynamic_description[p].generated_at
\* a page view, or a run of generate_dynamic_descriptions without --force
\* that processes product p
UnforcedOn(op, p) ==
    \/ PageServed(op) /\ op.product = p
    \/ op.op = "generate_dynamic_descriptions" /\ ~op.force

\* C21: once a description was generated, a page view or an unforced
\* update neither calls the generator nor changes the stored description
\* as long as fewer than 7 days have passed and the product was not saved
\* since; after a later save of the product the next page view calls the
\* generator and stores what it gives.
C21_DescriptionStableUntilStale ==
    [][ \A p \in Products :
          /\ (UnforcedOn(content_op', p) /\ DescriptionFresh(p)) =>
                /\ content_op'.described[p] = ""
                /\ dynamic_description'[p] = dynamic_description[p]
          /\ (PageServed(content_op') /\ content_op'.product = p
                 /\ SavedSinceGenerated(p)) =>
                /\ content_op'.needs
                /\ content_op'.described[p] # ""
                /\ content_op'.described[p] = "ok" =>
                      dynamic_description'[p] =
                         [text |-> "description", generated_at |-> now] ]_vars

\* a page view regenerated, less than 7 days after its generation, the
\* description of a product that was saved in between
C21_Witness ==
    /\ PageServed(content_op) /\ content_op.needs
    /\ content_op.described[content_op.product] = "ok"
    /\ dynamic_description[content_op.product].generated_at = now
    /\ content_op.previous # NoTime
    /\ now - content_op.previous < 168
    /\ updated_at[content_op.product] > content_op.previous

(***************************************************************************)
(* Claims about the product search (SpecSearch).                           *)
(***************************************************************************)
\* the LLM side of the search failed: no key, an exception of the call, an
\* answer that is not JSON or not an array
LLMFailed(op) ==
    \/ ~api_key_set
    \/ op.answer \in {"api_error", "not_json", "not_list"}
HasSearched == search_op # NoSearchOp

\* C22: get_ai_search_results does not raise when the LLM side fails but
\* returns what fallback_search gives for the same query and limit; and
\* whatever happened it returns at most limit entries, each an active
\* product.
C22_SearchFallsBack ==
    HasSearched =>
       /\ LLMFailed(search_op) =>
             (search_op.exc = "" /\ search_op.entries = search_op.fallback)
       /\ Len(search_op.entries) <= search_op.limit
       /\ \A i \in 1..Len(search_op.entries) :
             product_active[search_op.entries[i].product]

\* the LLM gave no JSON and the keyword search answered with the two best
\* sold of the three products found
C22_Witness ==
    /\ HasSearched /\ api_key_set /\ search_op.answer = "not_json"
    /\ search_op.limit = 2 /\ Len(search_op.entries) = 2
    /\ Cardinality(Found(search_op.query, product_active)) = 3

(***************************************************************************)
(* Claims about logging in with a guest cart (SpecShop).                   *)
(***************************************************************************)
\* C24: after the login request of a guest, the items the guest had put in
\* the cart of the session are in the cart of the user account.
C24_GuestCartKept ==
    [][ (/\ shop_op'.op = "user_login" /\ shop_op'.status = "ok"
         /\ shop_op'.session_key # NoSession) =>
          \A p \in Products :
             cart_items'[shop_op'.owner][p] >= cart_items[shop_op'.session_key][p] ]_vars

(***************************************************************************)
(* Claims about get_product_details (SpecCatalogue).                       *)
(***************************************************************************)
\* this step is a call of get_product_details: products and cache entries
\* are as before, but for the entry the call may store
DetailsCall ==
    /\ t_pc' = "executed" /\ t_name' = "get_product_details"
    /\ product_active' = product_active
    /\ cache \subseteq cache'

\* C23: get_product_details returns success = false for a product that is
\* inactive when it is called, whatever was called or changed before.
C23_InactiveHasNoDetails ==
    [][ (DetailsCall /\ ~product_active[t_args'["product_id"].n]) =>
          ~t_res'.result.success ]_vars

(***************************************************************************)
(* Claims about who may continue a conversation (Spec).                    *)
(***************************************************************************)
\* the conversation row is tied to the requester: to the user, or to the
\* session the request came with
TiedTo(row, req) ==
    \/ req.user # Anonymous /\ row.user = req.user
    \/ req.session_key # NoSession /\ row.session_key = req.session_key

\* C25: a chat request is given the history of an existing conversation,
\* appends to it or becomes its owner only if the requester is the user or
\* the session the conversation is tied to.
C25_OnlyOwnerContinues ==
    [][ \A cid \in DOMAIN conversations :
          (/\ v_pc = "idle"
           /\ \/ messages'[cid] # messages[cid]
              \/ conversations'[cid] # conversations[cid]
              \/ (v_pc' = "service" /\ v_conv' = cid)) =>
             TiedTo(conversations[cid], v_req') ]_vars

(***************************************************************************)
(* Claims about the rate limiter under load (SpecRateRace, SpecRateSpread).*)
(***************************************************************************)
\* C26: with chat requests of one client identifier handled at the same
\* time, no more than 20 of them are admitted within one window.
C26_TwentyUnderConcurrency ==
    \A k \in RateKeys : rl_recent[k][1] <= 20

\* the requests of client k admitted in the 60 seconds up to now
AdmittedLately(k) == rl_recent[k][1] + rl_recent[k][2] + rl_recent[k][3]

\* C27: a chat request is answered 429 only if at least 20 requests of the
\* same identifier were admitted in the 60 seconds before it; a client
\* with fewer than 20 requests in every 60 seconds never gets a 429.
C27_RejectedOnlyAfterTwenty ==
    [][ (responses' = responses + 1 /\ last_response'.status = 429) =>
          AdmittedLately(Identifier(v_req')) >= 20 ]_vars

(***************************************************************************)
(* Claims about the checkout (SpecCheckoutRace, SpecShop)                  *)
(***************************************************************************)
RECURSIVE QuantityIn(_, _)
QuantityIn(rows, p) ==
    IF rows = << >> THEN 0
    ELSE (IF Head(rows).product = p THEN Head(rows).quantity ELSE 0)
         + QuantityIn(Tail(rows), p)
RECURSIVE QuantityOrdered(_, _)
QuantityOrdered(os, p) ==
    IF os = << >> THEN 0
    ELSE QuantityIn(Head(os).items, p) + QuantityOrdered(Tail(os), p)
NoCheckoutInFlight == \A u \in Users : checkouts[u].pc = "idle"

\* C28: when no checkout is in flight, for every product the drop in stock
\* equals the rise in units_sold and equals the sum of the quantities of
\* the OrderItems created for it, whatever the interleaving was.
C28_NoStockUpdateLost ==
    NoCheckoutInFlight =>
        \A p \in Products :
            /\ Stock0[p] - product_stock[p] = units_sold[p]
            /\ units_sold[p] = QuantityOrdered(orders, p)

\* the exceptions that end a checkout after its order row was created
CheckoutFailures == {"IntegrityError", "AttributeError"}

\* C29: a checkout that fails after the order row was created leaves no
\* Order or OrderItem of the request stored, leaves the stock and units_sold
\* of every product as they were, and leaves the cart with its items.
C29_CheckoutAllOrNothing ==
    [][ (shop_op'.op = "checkout" /\ shop_op'.status \in CheckoutFailures) =>
          /\ orders' = orders
          /\ product_stock' = product_stock
          /\ units_sold' = units_sold
          /\ cart_items' = cart_items ]_vars

(***************************************************************************)
(* Claims about the message list of a chat request (SpecHistory)           *)
(***************************************************************************)
\* the user and assistant rows the conversation had before the request in
\* hand stored its user message
StoredBefore ==
    SelectSeq(SubSeq(messages[v_conv], 1, Len(messages[v_conv]) - 1), IsChatRole)
Kept == IF Len(StoredBefore) < 12 THEN Len(StoredBefore) ELSE 12
ShapedList(sent) ==
    /\ Len(sent) >= Kept + 2
    /\ sent[1].role = "system"
    /\ CountRole(sent, "system") = 1
    /\ \A i \in 1..Kept :
          sent[1 + i] = Msg(StoredBefore[Len(StoredBefore) - Kept + i].role,
                           StoredBefore[Len(StoredBefore) - Kept + i].content)
    /\ sent[Kept + 2] = Msg("user", v_req.message)
    /\ \A i \in (Kept + 3)..Len(sent) : sent[i].role \in {"assistant", "tool"}

\* C30: every message list sent to the LLM in a chat request is one system
\* message, then the at most 12 latest user and assistant messages stored
\* before the request, oldest first, then one copy of the new user
\* message; a later list of the request is the one before it with
\* messages appended.
C30_MessageListShape ==
    v_pc = "service" =>
        \A k \in 1..Len(llm_sent) :
            /\ ShapedList(llm_sent[k])
            /\ k > 1 => /\ Len(llm_sent[k]) > Len(llm_sent[k - 1])
                        /\ SubSeq(llm_sent[k], 1, Len(llm_sent[k - 1])) = llm_sent[k - 1]
C30_Witness ==
    /\ v_pc = "service" /\ Len(llm_sent) >= 2
    /\ Len(StoredBefore) > 12
    /\ llm_sent[1][2] = Msg("assistant", ToString(Len(StoredBefore) - 11))
    /\ Len(llm_sent[1]) = 14

====
